---- MODULE Spec2Model ----
(***************************************************************************)
(* Model of the Maximal-Type-Set engine of the card aggregator            *)
(* (aggregators/type_aggregators.py) and of the helpers of card_utils.py  *)
(* it calls.  Text is modelled as a sequence of one-character strings     *)
(* where its order or its digits matter (set codes, collector numbers,    *)
(* ISO dates) and as a sequence of word tokens for type lines.  A card is *)
(* a record whose DOMAIN is the set of fields present in the JSON object. *)
(***************************************************************************)
EXTENDS Integers, Sequences, FiniteSets, TLC

----------------------------------------------------------------------------
(* Characters and strings *)

\* The characters used by the model, in code-point order.
Alphabet ==
    << "-", "0", "1", "2", "3", "4", "5", "6", "7", "8", "9",
       "a", "b", "d", "e", "i", "l", "m", "p", "s", "t", "u", "x" >>

\* The position of each character in that order.
CodePoint ==
    [ c \in { Alphabet[i] : i \in 1..Len(Alphabet) } |->
        CHOOSE i \in 1..Len(Alphabet) : Alphabet[i] = c ]

Ord(c) == CodePoint[c]

Digits == {"0", "1", "2", "3", "4", "5", "6", "7", "8", "9"}

\* Python's str "<": lexicographic by code point, a proper prefix is smaller.
StrLess(s, t) ==
    \E i \in 1..(Len(t)) :
        /\ \A j \in 1..(i - 1) : j <= Len(s) /\ s[j] = t[j]
        /\ \/ i = Len(s) + 1
           \/ i <= Len(s) /\ Ord(s[i]) < Ord(t[i])

\* int() of a string of digits.
IntOfDigits(ds) ==
    LET Value[i \in 0..Len(ds)] ==
            IF i = 0 THEN 0 ELSE Value[i - 1] * 10 + (Ord(ds[i]) - Ord("0"))
    IN  Value[Len(ds)]

Range(seq) == { seq[i] : i \in 1..Len(seq) }

\* The sequence without its elements that are in a set.
Without(seq, removed) == SelectSeq(seq, LAMBDA x : x \notin removed)

\* dict.get(field, default)
Get(card, field, default) ==
    IF field \in DOMAIN card THEN card[field] ELSE default

----------------------------------------------------------------------------
(* card_utils.py *)

BASIC_LAND_TYPES == {"Forest", "Island", "Mountain", "Plains", "Swamp"}

NON_TRADITIONAL_SET_TYPES == {"memorabilia", "funny"}
NON_TRADITIONAL_LAYOUTS == {"emblem", "token"}
NON_TRADITIONAL_BORDERS == {"silver", "gold"}

PastSet == << "p", "a", "s", "t" >>

\* Tokens of a type line that the pattern \b[\w\-']+\b does not match:
\* "--" stands for the em dash (U+2014) of a type line, "//" separates faces.
Separators == {"--", "//"}

\* text.replace("Time Lord", "Time-Lord") on a tokenised line: the two
\* adjacent words become one hyphenated word.
JoinTimeLord(words) ==
    LET joined ==
            [ i \in 1..Len(words) |->
                IF words[i] = "Time" /\ i < Len(words) /\ words[i + 1] = "Lord"
                THEN "Time-Lord"
                ELSE IF words[i] = "Lord" /\ i > 1 /\ words[i - 1] = "Time"
                THEN ""
                ELSE words[i] ]
    IN  Without(joined, {""})

extract_types(card) ==
    LET text == JoinTimeLord(Get(card, "type_line", << >>))
        words == Without(text, Separators)
    IN  { IF words[i] = "Time-Lord" THEN "Time Lord" ELSE words[i]
            : i \in 1..Len(words) }

\* datetime.max.date()
DateMax == << 9999, 12, 31 >>

\* date.fromisoformat("YYYY-MM-DD")
fromisoformat(s) ==
    << IntOfDigits(SubSeq(s, 1, 4)),
       IntOfDigits(SubSeq(s, 6, 7)),
       IntOfDigits(SubSeq(s, 9, 10)) >>

\* Mutant of get_sort_key: the collector number is parsed without the
\* non-digit characters being stripped, 0 when it is not a number.
get_sort_key_unstripped(card) ==
    LET released_at == Get(card, "released_at", << >>)
        release_date == IF released_at # << >>
                        THEN fromisoformat(released_at)
                        ELSE DateMax
        collector_number == Get(card, "collector_number", << >>)
        parsed_number == IF collector_number = << >>
                            \/ Range(collector_number) \ Digits # {}
                         THEN 0 ELSE IntOfDigits(collector_number)
    IN  << release_date, Get(card, "set", << >>),
           parsed_number, collector_number >>

get_sort_key(card) ==
    LET released_at == Get(card, "released_at", << >>)
        release_date == IF released_at # << >>
                        THEN fromisoformat(released_at)
                        ELSE DateMax
        collector_number == Get(card, "collector_number", << >>)
        stripped == Without(collector_number, Range(collector_number) \ Digits)
        parsed_number == IF stripped = << >> THEN 0 ELSE IntOfDigits(stripped)
    IN  << release_date, Get(card, "set", << >>),
           parsed_number, collector_number >>

\* date "<"
DateLess(a, b) ==
    \/ a[1] < b[1]
    \/ a[1] = b[1] /\ a[2] < b[2]
    \/ a[1] = b[1] /\ a[2] = b[2] /\ a[3] < b[3]

\* Python's tuple "<" on two sort keys.
SortKeyLess(a, b) ==
    \/ DateLess(a[1], b[1])
    \/ a[1] = b[1] /\ StrLess(a[2], b[2])
    \/ a[1] = b[1] /\ a[2] = b[2] /\ a[3] < b[3]
    \/ a[1] = b[1] /\ a[2] = b[2] /\ a[3] = b[3] /\ StrLess(a[4], b[4])

is_all_creature_types(card) ==
    \/ "name" \in DOMAIN card /\ card["name"] = "Mistform Ultimus"
    \/ LET keywords == Get(card, "keywords", << >>)
       IN  \E i \in 1..Len(keywords) : keywords[i] = "Changeling"

permanent_types ==
    {"Artifact", "Battle", "Creature", "Enchantment", "Land", "Planeswalker"}

is_permanent(card) ==
    LET card_types == extract_types(card)
    IN  \E ptype \in permanent_types : ptype \in card_types

\* Mutant of is_traditional_card: the border colour is not looked at.
is_traditional_card_no_border(card) ==
    IF "set_type" \in DOMAIN card
       /\ card["set_type"] \in NON_TRADITIONAL_SET_TYPES THEN FALSE
    ELSE IF "layout" \in DOMAIN card
       /\ card["layout"] \in NON_TRADITIONAL_LAYOUTS THEN FALSE
    ELSE IF "set" \in DOMAIN card /\ card["set"] = PastSet THEN FALSE
    ELSE TRUE

is_traditional_card(card) ==
    IF "set_type" \in DOMAIN card
       /\ card["set_type"] \in NON_TRADITIONAL_SET_TYPES THEN FALSE
    ELSE IF "layout" \in DOMAIN card
       /\ card["layout"] \in NON_TRADITIONAL_LAYOUTS THEN FALSE
    ELSE IF "set" \in DOMAIN card /\ card["set"] = PastSet THEN FALSE
    ELSE IF "border_color" \in DOMAIN card
       /\ card["border_color"] \in NON_TRADITIONAL_BORDERS THEN FALSE
    ELSE TRUE

\* colors = "WUBRG"
colors == << "W", "U", "B", "R", "G" >>

\* generics = "MNOP"
generics == << "M", "N", "O", "P" >>

\* The position of an element in a sequence without repetitions.
IndexOf(seq, x) == CHOOSE i \in 1..Len(seq) : seq[i] = x

\* Mutant of ColorMapLoop: the colours are entered in the order of
\* "WUBRG", not in the order of their first appearance.
ColorMapLoop_fixed_order(cost) ==
    LET present == SelectSeq(colors, LAMBDA c : c \in Range(cost))
    IN  IF Len(present) <= Len(generics)
        THEN [ keys |-> present, returned |-> FALSE ]
        ELSE [ keys |-> SubSeq(present, 1, Len(generics)),
               returned |-> TRUE ]

\* The for loop of generalize_mana_cost: the keys of color_map in insertion
\* order (the k-th key maps to generics[k]), and whether the loop returned
\* on a colour for which no generic letter is left.
ColorMapLoop(cost) ==
    LET Loop[i \in 0..Len(cost)] ==
            IF i = 0 THEN [ keys |-> << >>, returned |-> FALSE ]
            ELSE LET before == Loop[i - 1]
                     c == cost[i]
                 IN  IF before.returned THEN before
                     ELSE IF c \in Range(colors) /\ c \notin Range(before.keys)
                     THEN IF Len(before.keys) < Len(generics)
                          THEN [ before EXCEPT !.keys = Append(@, c) ]
                          ELSE [ before EXCEPT !.returned = TRUE ]
                     ELSE before
    IN  Loop[Len(cost)]

\* Mutant of generalize_mana_cost: only the first occurrence of a colour is
\* replaced.
generalize_mana_cost_first_only(cost) ==
    LET color_map == ColorMapLoop(cost)
    IN  IF color_map.returned THEN cost
        ELSE [ i \in 1..Len(cost) |->
                 IF cost[i] \in Range(color_map.keys)
                    /\ \A j \in 1..(i - 1) : cost[j] # cost[i]
                 THEN generics[IndexOf(color_map.keys, cost[i])]
                 ELSE cost[i] ]

\* Mutant of generalize_mana_cost: on a fifth colour the colours mapped so
\* far are still replaced.
generalize_mana_cost_partial(cost) ==
    LET color_map == ColorMapLoop(cost)
    IN  [ i \in 1..Len(cost) |->
            IF cost[i] \in Range(color_map.keys)
            THEN generics[IndexOf(color_map.keys, cost[i])]
            ELSE cost[i] ]

generalize_mana_cost(cost) ==
    LET color_map == ColorMapLoop(cost)
    IN  IF color_map.returned THEN cost
        ELSE [ i \in 1..Len(cost) |->
                 IF cost[i] \in Range(color_map.keys)
                 THEN generics[IndexOf(color_map.keys, cost[i])]
                 ELSE cost[i] ]

----------------------------------------------------------------------------
(* Inputs: vocabulary files and cards *)

\* A vocabulary file: whether open() succeeds, and its lines, each a
\* sequence of tokens of which " " and "\n" are whitespace.
Whitespace == {" ", "\n"}

CreatureTypesFile ==
    [ readable |-> TRUE,
      lines |-> << << "Elf", "\n" >>, << "\n" >>,
                   << " ", "Saproling", "\n" >>, << "Wizard" >> >> ]

LandTypesFile ==
    [ readable |-> TRUE,
      lines |-> << << "Forest", "\n" >>, << "Gate", "\n" >>,
                   << " ", "\n" >>, << "Island", "\n" >> >> ]

UnreadableFile == [ readable |-> FALSE, lines |-> << >> ]

\* Every type token of the model, in the order sorted() gives (code points).
TypeOrder ==
    << "Artifact", "Battle", "Creature", "Elf", "Emblem", "Enchantment",
       "Forest", "Gate", "Instant", "Island", "Land", "Legendary", "Lord",
       "Mountain", "Plains", "Planeswalker", "Saproling", "Snow", "Swamp",
       "Time", "Time Lord", "Token", "Wizard" >>

TypeTokens == { TypeOrder[i] : i \in 1..Len(TypeOrder) }

SetLEA == << "l", "e", "a" >>
SetISD == << "i", "s", "d" >>
Date1993 == << "1", "9", "9", "3", "-", "0", "8", "-", "0", "5" >>
Date2011 == << "2", "0", "1", "1", "-", "0", "9", "-", "3", "0" >>

Traditional(fields) ==
    fields @@ [ set_type |-> "expansion", layout |-> "normal",
                border_color |-> "black" ]

LlanowarElves ==
    Traditional([ name |-> "Llanowar Elves",
                  type_line |-> << "Creature", "--", "Elf" >>,
                  set |-> SetLEA, released_at |-> Date1993,
                  collector_number |-> << "2", "1", "0" >> ])

LlanowarElvesReprint ==
    Traditional([ name |-> "Llanowar Elves",
                  type_line |-> << "Creature", "--", "Elf" >>,
                  set |-> SetISD, released_at |-> Date2011,
                  collector_number |-> << "2", "1", "0" >> ])

ElvishWizard ==
    Traditional([ name |-> "Elvish Wizard",
                  type_line |-> << "Creature", "--", "Elf", "Wizard" >>,
                  set |-> SetLEA, released_at |-> Date1993,
                  collector_number |-> << "2", "1", "0", "a" >> ])

\* Two records with no set, date or collector number: equal sort keys.
LightningBolt == [ name |-> "Lightning Bolt", type_line |-> << "Instant" >> ]
Shock == [ name |-> "Shock", type_line |-> << "Instant" >> ]

Shapesharer ==
    Traditional([ name |-> "Shapesharer",
                  type_line |-> << "Creature", "--", "Elf" >>,
                  keywords |-> << "Changeling" >>,
                  set |-> SetISD, released_at |-> Date2011,
                  collector_number |-> << "5", "2" >> ])

MistformUltimus ==
    Traditional([ name |-> "Mistform Ultimus",
                  type_line |-> << "Legendary", "Creature", "--", "Wizard" >>,
                  set |-> SetLEA, released_at |-> Date1993,
                  collector_number |-> << "4", "5" >> ])

PlanarNexus ==
    Traditional([ name |-> "Planar Nexus",
                  type_line |-> << "Land" >>,
                  keywords |-> << >>,
                  set |-> SetISD, released_at |-> Date2011,
                  collector_number |-> << "9" >> ])

\* A two-faced card: keywords are on the card, not on its faces; the front
\* face is a token face.
TwoFaced ==
    Traditional([ name |-> "Front // Back",
                  type_line |-> << "Token", "Creature", "--", "Elf", "//",
                                   "Creature", "--", "Time", "Lord" >>,
                  keywords |-> << "Changeling" >>,
                  set |-> SetISD, released_at |-> Date2011,
                  collector_number |-> << "7" >>,
                  card_faces |->
                    << [ name |-> "Front",
                         type_line |-> << "Token", "Creature", "--",
                                          "Elf" >> ],
                       [ name |-> "Back",
                         type_line |-> << "Creature", "--", "Time",
                                          "Lord" >> ] >> ])

MemorabiliaCard ==
    [ name |-> "Memorabilia", set_type |-> "memorabilia",
      layout |-> "normal", border_color |-> "black",
      type_line |-> << "Artifact", "Creature", "--", "Elf", "Wizard" >>,
      set |-> SetLEA, released_at |-> Date1993,
      collector_number |-> << "1" >> ]

TokenLayoutCard ==
    [ name |-> "Elf Token", set_type |-> "expansion",
      layout |-> "token", border_color |-> "black",
      type_line |-> << "Artifact", "Land" >>,
      set |-> SetLEA, released_at |-> Date1993,
      collector_number |-> << "2" >> ]

PastCard ==
    [ name |-> "Past Card", set_type |-> "expansion",
      layout |-> "normal", border_color |-> "black",
      type_line |-> << "Enchantment" >>,
      set |-> PastSet, released_at |-> Date1993,
      collector_number |-> << "3" >> ]

SilverBorderCard ==
    [ name |-> "Silver // Border", set_type |-> "expansion",
      layout |-> "normal", border_color |-> "silver",
      set |-> SetLEA, released_at |-> Date1993,
      collector_number |-> << "4" >>,
      card_faces |->
        << [ name |-> "Silver", type_line |-> << "Snow", "Instant" >> ],
           [ name |-> "Border", type_line |-> << "Artifact" >> ] >> ]

Cards ==
    { LlanowarElves, LlanowarElvesReprint, ElvishWizard, LightningBolt,
      Shock, Shapesharer, MistformUltimus, PlanarNexus,
      TwoFaced, MemorabiliaCard, TokenLayoutCard, PastCard,
      SilverBorderCard }

----------------------------------------------------------------------------
(* aggregators/type_aggregators.py *)

VARIABLES
    variant,                  \* "plain": MaximalPrintedTypesAggregator,
                              \* "effects": MaximalTypesWithEffectsAggregator
    all_creature_types_file,  \* constructor argument
    all_land_types_file,      \* constructor argument
    all_creature_types,       \* self.all_creature_types
    all_land_types,           \* self.all_land_types
    nonbasic_land_types,      \* self.nonbasic_land_types
    maximal_types,            \* self.maximal_types: sorted tuple -> card
    offered,                  \* history: every (type_key, parent card) that
                              \* reached the antichain update
    last_card                 \* history: << >>, or the argument of the last
                              \* process_card call

\* The global-effects table under reordering (apply_global_effects).
VARIABLES
    effect_order,             \* the effect names, in the order applied
    effect_input,             \* card_types handed to apply_global_effects
    effect_result             \* card_types it returned

\* Two cards and their sort keys (get_sort_key).
VARIABLES
    card_a, card_b,           \* the arguments of two get_sort_key calls
    key_a, key_b              \* the tuples they returned

\* A mana cost and its generalisations (generalize_mana_cost).
VARIABLES
    mana_cost,                \* the argument, a sequence of characters
    generalized,              \* << >>, or << generalize_mana_cost(mana_cost) >>
    regeneralized             \* << >>, or << the function applied again >>

\* Two runs of the ingestion loop over one card stream (card_aggregator.py).
VARIABLES
    active,                   \* the names of the aggregators of run 2
    stream,                   \* the cards read so far, in order
    aggregators,              \* run -> name -> the aggregator's fields
    received,                 \* history: run -> name -> the cards its
                              \* process_card was called with
    faults,                   \* history: the calls that raised
    today,                    \* date.today()
    output                    \* run -> << >>, or << the day of the output
                              \* phase and each get_sorted_data result >>

vars ==
    << variant, all_creature_types_file, all_land_types_file,
       all_creature_types, all_land_types, nonbasic_land_types,
       maximal_types, offered, last_card,
       effect_order, effect_input, effect_result,
       card_a, card_b, key_a, key_b,
       mana_cost, generalized, regeneralized,
       active, stream, aggregators, received, faults, today, output >>

EngineVars ==
    << variant, all_creature_types_file, all_land_types_file,
       all_creature_types, all_land_types, nonbasic_land_types,
       maximal_types, offered, last_card >>

EffectVars == << effect_order, effect_input, effect_result >>

SortKeyVars == << card_a, card_b, key_a, key_b >>

ManaVars == << mana_cost, generalized, regeneralized >>

PipelineVars ==
    << active, stream, aggregators, received, faults, today, output >>

\* line.strip()
Strip(line) ==
    LET kept == { i \in 1..Len(line) : line[i] \notin Whitespace }
    IN  IF kept = {} THEN << >>
        ELSE SubSeq(line, CHOOSE i \in kept : \A j \in kept : i <= j,
                          CHOOSE i \in kept : \A j \in kept : j <= i)

\* Mutant of NonbasicLandTypes: the operands of the difference swapped.
NonbasicLandTypes_swapped(land_types) == BASIC_LAND_TYPES \ land_types

\* self.all_land_types - BASIC_LAND_TYPES
NonbasicLandTypes(land_types) == land_types \ BASIC_LAND_TYPES

load_types(file) ==
    IF file.readable
    THEN { Strip(file.lines[i])[1] :
             i \in { j \in 1..Len(file.lines) : Strip(file.lines[j]) # << >> } }
    ELSE {}

\* tuple(sorted(card_types))
SortedTuple(card_types) == Without(TypeOrder, TypeTokens \ card_types)

\* " ".join(card_types) as a tokenised type line: a token holding a space
\* reads back as two words.
JoinTypes(card_types) ==
    LET tuple == SortedTuple(card_types)
        at == { i \in 1..Len(tuple) : tuple[i] = "Time Lord" }
    IN  IF at = {} THEN tuple
        ELSE LET i == CHOOSE j \in at : TRUE
             IN  SubSeq(tuple, 1, i - 1) \o << "Time", "Lord" >>
                 \o SubSeq(tuple, i + 1, Len(tuple))

\* The keys of define_global_effects, in dictionary order.
global_effects ==
    << "In Bolas's Clutches", "Rimefeather Owl", "Enchanted Evening",
       "Mycosynth Lattice", "March of the Machines", "Maskwood Nexus",
       "Life and Limb", "Prismatic Omen", "Omo, Queen of Vesuva" >>

\* Mutant of Effect: every effect adds its types whatever the TypeSet holds.
Effect_unconditional(name, card_types) ==
    CASE name = "In Bolas's Clutches" -> card_types \cup {"Legendary"}
      [] name = "Rimefeather Owl" -> card_types \cup {"Snow"}
      [] name = "Enchanted Evening" -> card_types \cup {"Enchantment"}
      [] name = "Mycosynth Lattice" -> card_types \cup {"Artifact"}
      [] name = "March of the Machines" -> card_types \cup {"Creature"}
      [] name = "Maskwood Nexus" -> card_types \cup all_creature_types
      [] name = "Life and Limb" ->
           card_types \cup {"Creature", "Land", "Saproling", "Forest"}
      [] name = "Prismatic Omen" -> card_types \cup BASIC_LAND_TYPES
      [] name = "Omo, Queen of Vesuva" ->
           card_types \cup BASIC_LAND_TYPES \cup nonbasic_land_types

\* The lambda stored under each key of define_global_effects.
Effect(name, card_types) ==
    LET permanent == is_permanent([ type_line |-> JoinTypes(card_types) ])
    IN  CASE name = "In Bolas's Clutches" ->
               IF permanent THEN card_types \cup {"Legendary"} ELSE card_types
          [] name = "Rimefeather Owl" ->
               IF permanent THEN card_types \cup {"Snow"} ELSE card_types
          [] name = "Enchanted Evening" ->
               IF permanent THEN card_types \cup {"Enchantment"}
               ELSE card_types
          [] name = "Mycosynth Lattice" ->
               IF permanent THEN card_types \cup {"Artifact"} ELSE card_types
          [] name = "March of the Machines" ->
               IF "Artifact" \in card_types /\ "Creature" \notin card_types
               THEN card_types \cup {"Creature"} ELSE card_types
          [] name = "Maskwood Nexus" ->
               IF "Creature" \in card_types
               THEN card_types \cup all_creature_types ELSE card_types
          [] name = "Life and Limb" ->
               IF "Forest" \in card_types \/ "Saproling" \in card_types
               THEN card_types \cup {"Creature", "Land", "Saproling", "Forest"}
               ELSE card_types
          [] name = "Prismatic Omen" ->
               IF "Land" \in card_types
               THEN card_types \cup BASIC_LAND_TYPES ELSE card_types
          [] name = "Omo, Queen of Vesuva" ->
               IF "Land" \in card_types
               THEN card_types \cup BASIC_LAND_TYPES \cup nonbasic_land_types
               ELSE IF "Creature" \in card_types
               THEN card_types \cup all_creature_types
               ELSE card_types

\* Mutant of apply_global_effects: every effect is applied to the argument
\* and the results are joined, so no effect sees what another one added.
apply_global_effects_from_input(card_types) ==
    UNION { Effect(global_effects[i], card_types) :
              i \in 1..Len(global_effects) }

\* Each effect is applied to the value the previous one returned.
apply_global_effects(card_types) ==
    LET Applied[i \in 0..Len(global_effects)] ==
            IF i = 0 THEN card_types
            ELSE CHOOSE result \in
                    { Effect(global_effects[i], previous) :
                        previous \in { Applied[i - 1] } } : TRUE
    IN  Applied[Len(global_effects)]

\* "Token" in card_types or "Emblem" in card_types
IsSkippedFace(face) ==
    LET card_types == extract_types(face)
    IN  "Token" \in card_types \/ "Emblem" \in card_types

\* card_types of a face that is not skipped, when type_key is built.
FaceTypes(face) ==
    LET extracted == extract_types(face)
        with_creature_types ==
            IF is_all_creature_types(face)
            THEN extracted \cup all_creature_types ELSE extracted
        with_land_types ==
            IF "name" \in DOMAIN face /\ face["name"] = "Planar Nexus"
            THEN with_creature_types \cup nonbasic_land_types
            ELSE with_creature_types
    IN  IF variant = "effects" THEN apply_global_effects(with_land_types)
        ELSE with_land_types

type_key_of(face) == SortedTuple(FaceTypes(face))

\* Mutant of is_maximal: any() instead of all().
is_maximal_any(map, type_key) ==
    \E existing_key \in DOMAIN map :
        ~ (Range(type_key) \subseteq Range(existing_key))

is_maximal(map, type_key) ==
    \A existing_key \in DOMAIN map :
        ~ (Range(type_key) \subseteq Range(existing_key))

\* Mutant of keys_to_remove: no dominated key is deleted.
keys_to_remove_none(map, type_key) == {}

\* Mutant of keys_to_remove: the subset test always succeeds.
keys_to_remove_all(map, type_key) == DOMAIN map

keys_to_remove(map, type_key) ==
    { existing_key \in DOMAIN map :
        Range(existing_key) \subseteq Range(type_key) }

\* Mutant of update_maximal_types: a new key is inserted without the
\* maximality test.
update_maximal_types_unchecked(map, type_key, parent_card) ==
    IF type_key \in DOMAIN map
    THEN IF SortKeyLess(get_sort_key(parent_card), get_sort_key(map[type_key]))
         THEN [ map EXCEPT ![type_key] = parent_card ]
         ELSE map
    ELSE [ k \in (DOMAIN map \ keys_to_remove(map, type_key))
                   \cup {type_key} |->
             IF k = type_key THEN parent_card ELSE map[k] ]

\* Mutant of update_maximal_types: "<=" instead of "<" on the sort keys.
update_maximal_types_le(map, type_key, parent_card) ==
    IF type_key \in DOMAIN map
    THEN IF ~ SortKeyLess(get_sort_key(map[type_key]),
                          get_sort_key(parent_card))
         THEN [ map EXCEPT ![type_key] = parent_card ]
         ELSE map
    ELSE IF is_maximal(map, type_key)
         THEN [ k \in (DOMAIN map \ keys_to_remove(map, type_key))
                        \cup {type_key} |->
                  IF k = type_key THEN parent_card ELSE map[k] ]
         ELSE map

\* The update of self.maximal_types with a type_key and its parent card.
update_maximal_types(map, type_key, parent_card) ==
    IF type_key \in DOMAIN map
    THEN IF SortKeyLess(get_sort_key(parent_card), get_sort_key(map[type_key]))
         THEN [ map EXCEPT ![type_key] = parent_card ]
         ELSE map
    ELSE IF is_maximal(map, type_key)
         THEN [ k \in (DOMAIN map \ keys_to_remove(map, type_key))
                        \cup {type_key} |->
                  IF k = type_key THEN parent_card ELSE map[k] ]
         ELSE map

process_single_face(map, face, parent_card) ==
    IF IsSkippedFace(face) THEN map
    ELSE update_maximal_types(map, type_key_of(face), parent_card)

\* The faces process_card hands to process_single_face.
FacesOf(card) ==
    IF "card_faces" \in DOMAIN card THEN card["card_faces"] ELSE << card >>

\* The map before and after each face of a traditional card.
RECURSIVE FaceSteps(_, _, _)
FaceSteps(map, faces, parent_card) ==
    IF Len(faces) = 0 THEN << >>
    ELSE LET after == process_single_face(map, faces[1], parent_card)
         IN  << [ face |-> faces[1], before |-> map, after |-> after ] >>
             \o FaceSteps(after, Tail(faces), parent_card)

StepsOf(map, card) ==
    IF is_traditional_card(card) THEN FaceSteps(map, FacesOf(card), card)
    ELSE << >>

\* Mutant of process_card: the guard on is_traditional_card inverted.
process_card_inverted_guard(map, card) ==
    LET steps == FaceSteps(map, FacesOf(card), card)
    IN  IF is_traditional_card(card) \/ Len(steps) = 0 THEN map
        ELSE steps[Len(steps)].after

\* Mutant of process_card: a card whose own type line names a token or an
\* emblem is skipped with all its faces.
process_card_skip_card(map, card) ==
    LET steps == StepsOf(map, card)
    IN  IF Len(steps) = 0 \/ IsSkippedFace(card) THEN map
        ELSE steps[Len(steps)].after

process_card(map, card) ==
    LET steps == StepsOf(map, card)
    IN  IF Len(steps) = 0 THEN map ELSE steps[Len(steps)].after

\* The (type_key, parent card) pairs a card hands to the antichain update.
OfferedBy(card) ==
    IF is_traditional_card(card)
    THEN { [ key |-> type_key_of(FacesOf(card)[i]), card |-> card ] :
             i \in { j \in 1..Len(FacesOf(card)) :
                       ~ IsSkippedFace(FacesOf(card)[j]) } }
    ELSE {}

EmptyMap == [ k \in {} |-> LlanowarElves ]

\* The reordering variables while the table is applied in its own order.
EffectsUnused ==
    /\ effect_order = global_effects
    /\ effect_input = {}
    /\ effect_result = {}

\* A card record with no field at all.
NoFields == [ field \in {} |-> << >> ]

\* The sort-key variables before any get_sort_key call of the comparison.
SortKeysUnused ==
    /\ card_a = NoFields
    /\ card_b = NoFields
    /\ key_a = get_sort_key(NoFields)
    /\ key_b = get_sort_key(NoFields)

\* The mana-cost variables while generalize_mana_cost is not called.
ManaUnused ==
    /\ mana_cost = << >>
    /\ generalized = << >>
    /\ regeneralized = << >>

\* The variables of the two runs while no run is made.
PipelineUnused ==
    /\ active = {}
    /\ stream = << >>
    /\ aggregators = << >>
    /\ received = << >>
    /\ faults = {}
    /\ today = << >>
    /\ output = << >>

Init ==
    /\ variant \in {"plain", "effects"}
    /\ all_creature_types_file \in {CreatureTypesFile, UnreadableFile}
    /\ all_land_types_file \in {LandTypesFile, UnreadableFile}
    /\ all_creature_types = load_types(all_creature_types_file)
    /\ all_land_types = load_types(all_land_types_file)
    /\ nonbasic_land_types = NonbasicLandTypes(all_land_types)
    /\ maximal_types = EmptyMap
    /\ offered = {}
    /\ last_card = << >>
    /\ EffectsUnused
    /\ SortKeysUnused
    /\ ManaUnused
    /\ PipelineUnused

ProcessCard(card) ==
    /\ maximal_types' = process_card(maximal_types, card)
    /\ offered' = offered \cup OfferedBy(card)
    /\ last_card' = << card >>
    /\ UNCHANGED << variant, all_creature_types_file, all_land_types_file,
                    all_creature_types, all_land_types, nonbasic_land_types >>
    /\ UNCHANGED << EffectVars, SortKeyVars, ManaVars, PipelineVars >>

Next == \E card \in Cards : ProcessCard(card)

Spec == Init /\ [][Next]_vars

----------------------------------------------------------------------------
(* apply_global_effects over a reordered table *)

\* The loop of apply_global_effects over the values of a table whose keys
\* are in the given order.
ApplyInOrder(order, card_types) ==
    LET Applied[i \in 0..Len(order)] ==
            IF i = 0 THEN card_types
            ELSE CHOOSE result \in
                    { Effect(order[i], previous) :
                        previous \in { Applied[i - 1] } } : TRUE
    IN  Applied[Len(order)]

\* The table of define_global_effects with two of its entries exchanged.
Swapped(i, j) ==
    [ k \in 1..Len(global_effects) |->
        IF k = i THEN global_effects[j]
        ELSE IF k = j THEN global_effects[i]
        ELSE global_effects[k] ]

\* TypeSets handed to apply_global_effects: at most MaxInputTypes tokens.
MaxInputTypes == 2

EffectInputs ==
    { types \in SUBSET {"Artifact", "Battle", "Creature", "Enchantment",
                        "Forest", "Instant", "Land", "Planeswalker"} :
        Cardinality(types) <= MaxInputTypes }

InitEffects ==
    /\ variant = "effects"
    /\ all_creature_types_file \in {CreatureTypesFile, UnreadableFile}
    /\ all_land_types_file \in {LandTypesFile, UnreadableFile}
    /\ all_creature_types = load_types(all_creature_types_file)
    /\ all_land_types = load_types(all_land_types_file)
    /\ nonbasic_land_types = NonbasicLandTypes(all_land_types)
    /\ maximal_types = EmptyMap
    /\ offered = {}
    /\ last_card = << >>
    /\ effect_order = global_effects
    /\ effect_input \in EffectInputs
    /\ effect_result = apply_global_effects(effect_input)
    /\ SortKeysUnused
    /\ ManaUnused
    /\ PipelineUnused

\* apply_global_effects run over the table with entries i and j exchanged.
ReorderEffects(i, j) ==
    /\ effect_order' = Swapped(i, j)
    /\ effect_result' = ApplyInOrder(Swapped(i, j), effect_input)
    /\ UNCHANGED effect_input
    /\ UNCHANGED << EngineVars, SortKeyVars, ManaVars, PipelineVars >>

NextEffects ==
    \E i, j \in 1..Len(global_effects) : i < j /\ ReorderEffects(i, j)

SpecEffects == InitEffects /\ [][NextEffects]_vars

----------------------------------------------------------------------------
(* get_sort_key on two cards *)

\* The engine as constructed from readable files, no card processed.
EngineUnused ==
    /\ variant = "plain"
    /\ all_creature_types_file = CreatureTypesFile
    /\ all_land_types_file = LandTypesFile
    /\ all_creature_types = load_types(all_creature_types_file)
    /\ all_land_types = load_types(all_land_types_file)
    /\ nonbasic_land_types = NonbasicLandTypes(all_land_types)
    /\ maximal_types = EmptyMap
    /\ offered = {}
    /\ last_card = << >>

\* A field that may be absent: << >> when absent, << value >> when present.
Optional(field, choice) ==
    IF choice = << >> THEN NoFields ELSE [ f \in {field} |-> choice[1] ]

DateLast == << "9", "9", "9", "9", "-", "1", "2", "-", "3", "1" >>

ReleasedAtChoices == { << >>, << Date1993 >>, << Date2011 >>, << DateLast >> }

SetChoices == { << >>, << SetLEA >>, << SetISD >> }

CollectorNumberChoices ==
    { << >>, << << >> >>, << << "1" >> >>, << << "1", "a" >> >>,
      << << "2" >> >>, << << "0", "1" >> >> }

\* Card records holding any subset of the three fields get_sort_key reads.
SortKeyCards ==
    { Optional("released_at", d) @@ Optional("set", s)
        @@ Optional("collector_number", n) :
        d \in ReleasedAtChoices, s \in SetChoices,
        n \in CollectorNumberChoices }

InitSortKeys ==
    /\ EngineUnused
    /\ EffectsUnused
    /\ SortKeysUnused
    /\ ManaUnused
    /\ PipelineUnused

SortKeyA(card) ==
    /\ card_a' = card
    /\ key_a' = get_sort_key(card)
    /\ UNCHANGED << card_b, key_b, EngineVars, EffectVars, ManaVars,
                    PipelineVars >>

SortKeyB(card) ==
    /\ card_b' = card
    /\ key_b' = get_sort_key(card)
    /\ UNCHANGED << card_a, key_a, EngineVars, EffectVars, ManaVars,
                    PipelineVars >>

NextSortKeys ==
    \/ \E card \in SortKeyCards : SortKeyA(card)
    \/ \E card \in SortKeyCards : SortKeyB(card)

SpecSortKeys == InitSortKeys /\ [][NextSortKeys]_vars

----------------------------------------------------------------------------
(* generalize_mana_cost on a mana cost, and on its own result *)

\* The characters of the mana costs: the five colours and "P", the
\* Phyrexian marker of "{W/P}", which is no colour but a letter of generics.
CostSymbols == Range(colors) \cup {"P"}

\* The longest mana cost of the model, in characters.
MaxCostLen == 5

ManaCosts == UNION { [ 1..n -> CostSymbols ] : n \in 0..MaxCostLen }

InitMana ==
    /\ EngineUnused
    /\ EffectsUnused
    /\ SortKeysUnused
    /\ PipelineUnused
    /\ mana_cost \in ManaCosts
    /\ generalized = << >>
    /\ regeneralized = << >>

\* generalize_mana_cost(mana_cost)
Generalize ==
    /\ generalized = << >>
    /\ generalized' = << generalize_mana_cost(mana_cost) >>
    /\ UNCHANGED << mana_cost, regeneralized,
                    EngineVars, EffectVars, SortKeyVars,
                    PipelineVars >>

\* generalize_mana_cost applied to the string it returned.
GeneralizeAgain ==
    /\ generalized # << >>
    /\ regeneralized = << >>
    /\ regeneralized' = << generalize_mana_cost(generalized[1]) >>
    /\ UNCHANGED << mana_cost, generalized,
                    EngineVars, EffectVars, SortKeyVars,
                    PipelineVars >>

NextMana == Generalize \/ GeneralizeAgain

SpecMana == InitMana /\ [][NextMana]_vars

----------------------------------------------------------------------------
(* Python values shared by the aggregators *)

\* card.get(field): << >> for None, << value >> for a value.
GetOrNone(card, field) ==
    IF field \in DOMAIN card THEN << card[field] >> ELSE << >>

\* A dict in insertion order: a sequence of [key, value] entries.
EmptyDict == << >>

DictKeys(dict) == { dict[i].key : i \in 1..Len(dict) }

DictGet(dict, key) ==
    dict[CHOOSE i \in 1..Len(dict) : dict[i].key = key].value

\* dict[key] = value: a new key goes last, an old key keeps its place.
DictSet(dict, key, value) ==
    IF key \in DictKeys(dict)
    THEN [ i \in 1..Len(dict) |->
             IF dict[i].key = key THEN [ key |-> key, value |-> value ]
             ELSE dict[i] ]
    ELSE Append(dict, [ key |-> key, value |-> value ])

\* defaultdict[key]: the value, or the default the factory gives.
DictGetDefault(dict, key, default) ==
    IF key \in DictKeys(dict) THEN DictGet(dict, key) ELSE default

\* del dict[key] for every key of a set.
DictWithout(dict, keys) == SelectSeq(dict, LAMBDA entry : entry.key \notin keys)

\* The pairs of positions of a sequence.
Pairs(seq) == (1..Len(seq)) \X (1..Len(seq))

\* sorted(seq, key=...), stable: "less" holds the pairs << j, i >> of
\* positions for which the key of seq[j] is smaller than the key of seq[i]
\* (greater, under reverse=True).
Sorted(seq, less) ==
    LET Position(i) ==
            1 + Cardinality({ j \in 1..Len(seq) : << j, i >> \in less })
              + Cardinality({ j \in 1..(i - 1) :
                                << j, i >> \notin less /\ << i, j >> \notin less })
    IN  [ p \in 1..Len(seq) |->
            seq[CHOOSE i \in 1..Len(seq) : Position(i) = p] ]

\* The pairs of positions of a dict of cards ordered by
\* key=lambda item: get_sort_key(item[1]).
BySortKey(items) ==
    { p \in Pairs(items) :
        SortKeyLess(get_sort_key(items[p[1]].value),
                    get_sort_key(items[p[2]].value)) }

\* The elements of a set of strings as sorted() lists them, given every
\* string of the model in code-point order.
SortedStrings(strings, order) == Without(order, Range(order) \ strings)

\* Whether date.fromisoformat / strptime("%Y-%m-%d") accept the text.
IsLeapYear(year) ==
    (year % 4 = 0 /\ year % 100 # 0) \/ year % 400 = 0

DaysInMonth(year, month) ==
    IF month = 2 THEN (IF IsLeapYear(year) THEN 29 ELSE 28)
    ELSE IF month \in {4, 6, 9, 11} THEN 30 ELSE 31

IsIsoDate(s) ==
    /\ Len(s) = 10
    /\ s[5] = "-"
    /\ s[8] = "-"
    /\ \A i \in {1, 2, 3, 4, 6, 7, 9, 10} : s[i] \in Digits
    /\ LET d == fromisoformat(s)
       IN  /\ d[1] >= 1
           /\ d[2] \in 1..12
           /\ d[3] \in 1..DaysInMonth(d[1], d[2])

\* date.toordinal()
toordinal(d) ==
    LET y == d[1] - 1
        before_month ==
            << 0, 31, 59, 90, 120, 151, 181, 212, 243, 273, 304, 334 >>[d[2]]
            + (IF d[2] > 2 /\ IsLeapYear(d[1]) THEN 1 ELSE 0)
    IN  y * 365 + (y \div 4) - (y \div 100) + (y \div 400) + before_month + d[3]

\* get_card_image_uri(card), size "normal"
get_card_image_uri(card) ==
    LET card_faces == Get(card, "card_faces", << >>)
        face_image_uris ==
            IF card_faces # << >>
            THEN Get(card_faces[1], "image_uris", NoFields) ELSE NoFields
        image_uris == Get(card, "image_uris", NoFields)
    IN  IF DOMAIN face_image_uris # {} THEN Get(face_image_uris, "normal", "")
        ELSE IF DOMAIN image_uris # {} THEN Get(image_uris, "normal", "")
        ELSE ""

\* The Scryfall data the aggregators keep for the card link of a row.
CardLink(card) ==
    [ scryfall_uri |-> Get(card, "scryfall_uri", ""),
      image_uri |-> get_card_image_uri(card) ]

\* Whether get_sort_key(card) raises ValueError: a release date that is
\* present, not empty and not an ISO date.
get_sort_key_raises_on_absent(card) ==
    \/ "released_at" \notin DOMAIN card
    \/ ~ IsIsoDate(card["released_at"])

get_sort_key_raises(card) ==
    LET released_at == Get(card, "released_at", << >>)
    IN  released_at # << >> /\ ~ IsIsoDate(released_at)

\* The result of a process_card call: the aggregator afterwards, and
\* whether the call raised.
Returned(self) == [ self |-> self, raised |-> FALSE ]

Raised(self) == [ self |-> self, raised |-> TRUE ]

----------------------------------------------------------------------------
(* aggregators/count_aggregators.py *)

\* CountAggregator.__init__: self.data, self.cards
Count_init == [ data |-> EmptyDict, cards |-> EmptyDict ]

\* Mutant of Count_process_card: the count goes up by one whether or not
\* finishes are counted.
Count_process_card_by_one(key_fields, count_finishes, self, card) ==
    LET key_values ==
            [ i \in 1..Len(key_fields) |-> GetOrNone(card, key_fields[i]) ]
        key == [ i \in 1..Len(key_fields) |-> key_values[i][1] ]
    IN  IF \E i \in 1..Len(key_fields) : key_values[i] = << >>
        THEN Returned(self)
        ELSE Returned(
               [ data |-> DictSet(self.data, key,
                                  DictGetDefault(self.data, key, 0) + 1),
                 cards |-> IF "name" \in Range(key_fields)
                              /\ key \notin DictKeys(self.cards)
                           THEN DictSet(self.cards, key, CardLink(card))
                           ELSE self.cards ])

Count_process_card(key_fields, count_finishes, self, card) ==
    LET key_values ==
            [ i \in 1..Len(key_fields) |-> GetOrNone(card, key_fields[i]) ]
        key == [ i \in 1..Len(key_fields) |-> key_values[i][1] ]
        increment == IF count_finishes
                     THEN Len(Get(card, "finishes", << >>)) ELSE 1
        needs_card_links == "name" \in Range(key_fields)
    IN  IF \E i \in 1..Len(key_fields) : key_values[i] = << >>
        THEN Returned(self)
        ELSE Returned(
               [ data |-> DictSet(self.data, key,
                                  DictGetDefault(self.data, key, 0) + increment),
                 cards |-> IF needs_card_links /\ key \notin DictKeys(self.cards)
                           THEN DictSet(self.cards, key, CardLink(card))
                           ELSE self.cards ])

Count_get_sorted_data(self) ==
    LET result ==
            [ i \in 1..Len(self.data) |->
                [ key |-> self.data[i].key,
                  count |-> self.data[i].value,
                  link |-> IF self.data[i].key \in DictKeys(self.cards)
                           THEN << DictGet(self.cards, self.data[i].key) >>
                           ELSE << >> ] ]
    IN  Sorted(result, { p \in Pairs(result) :
                          result[p[1]].count > result[p[2]].count })

\* str.isdigit()
isdigit(s) == s # << >> /\ Range(s) \subseteq Digits

\* Mutant of Max: the number read last, not the largest.
Max_latest(a, b) == b

\* max(a, b)
Max(a, b) == IF b > a THEN b ELSE a

\* MaxCollectorNumberBySetAggregator.__init__: self.data
MaxCollectorNumber_init == EmptyDict

MaxCollectorNumber_process_card(self, card) ==
    LET collector_number == GetOrNone(card, "collector_number")
        key == GetOrNone(card, "set")
    IN  IF collector_number # << >> /\ isdigit(collector_number[1])
           /\ key # << >>
        THEN Returned(DictSet(self, key[1],
                              Max(DictGetDefault(self, key[1], 0),
                                  IntOfDigits(collector_number[1]))))
        ELSE Returned(self)

MaxCollectorNumber_get_sorted_data(self) ==
    LET rows == [ i \in 1..Len(self) |->
                    [ set |-> self[i].key, maxNumber |-> self[i].value ] ]
    IN  Sorted(rows, { p \in Pairs(rows) :
                        rows[p[1]].maxNumber > rows[p[2]].maxNumber })

----------------------------------------------------------------------------
(* aggregators/metadata_aggregators.py *)

FOIL_PROMO_TYPES ==
    { "confettifoil", "doublerainbow", "embossed", "galaxyfoil", "gilded",
      "halofoil", "invisibleink", "neonink", "oilslick", "rainbowfoil",
      "raisedfoil", "ripplefoil", "silverfoil", "stepandcompleat",
      "surgefoil", "textured" }

\* datetime(2003, 7, 28)
MODERN_FOIL_CUTOFF_DATE == << 2003, 7, 28 >>

SetMPS == << "m", "p", "s" >>

SPECIAL_FOIL_SETS ==
    [ code \in { SetMPS, << "m", "p", "2" >>, << "e", "x", "p" >>,
                 << "p", "s", "u", "s" >>, << "d", "b", "l" >> } |->
        CASE code = SetMPS -> "inventions"
          [] code = << "m", "p", "2" >> -> "invocations"
          [] code = << "e", "x", "p" >> -> "expedition"
          [] code = << "p", "s", "u", "s" >> -> "sunburst"
          [] code = << "d", "b", "l" >> -> "silverscreen" ]

\* The promo types of the model, in the order sorted() gives.
PromoTypeOrder ==
    << "boosterfun", "confettifoil", "doublerainbow", "embossed",
       "galaxyfoil", "gilded", "halofoil", "invisibleink", "neonink",
       "oilslick", "prerelease", "rainbowfoil", "raisedfoil", "ripplefoil",
       "silverfoil", "stepandcompleat", "surgefoil", "textured" >>

\* The foil types FoilTypesAggregator can record, in the order sorted()
\* gives.
FoilTypeOrder ==
    << "confettifoil", "doublerainbow", "embossed", "etched", "expedition",
       "from_the_vault", "galaxyfoil", "gilded", "halofoil", "inventions",
       "invisibleink", "invocations", "modern_foil", "neonink", "oilslick",
       "premodern_foil", "rainbowfoil", "raisedfoil", "ripplefoil",
       "silverfoil", "silverscreen", "stepandcompleat", "sunburst",
       "surgefoil", "textured" >>

\* CountCardIllustrationsBySetAggregator.__init__: self.data, self.cards
Illustrations_init == [ data |-> EmptyDict, cards |-> EmptyDict ]

Illustrations_process_card(self, card) ==
    LET set_ == GetOrNone(card, "set")
        name == GetOrNone(card, "name")
        key == << set_[1], name[1] >>
    IN  IF set_ = << >> \/ name = << >> THEN Returned(self)
        ELSE Returned(
               [ data |-> DictSet(self.data, key,
                                  DictGetDefault(self.data, key, {})
                                    \cup { GetOrNone(card, "illustration_id") }),
                 cards |-> IF key \notin DictKeys(self.cards)
                           THEN DictSet(self.cards, key, CardLink(card))
                           ELSE self.cards ])

Illustrations_get_sorted_data(self) ==
    [ i \in 1..Len(self.data) |->
        [ set |-> self.data[i].key[1],
          name |-> self.data[i].key[2],
          count |-> Cardinality(self.data[i].value),
          link |-> IF self.data[i].key \in DictKeys(self.cards)
                   THEN << DictGet(self.cards, self.data[i].key) >>
                   ELSE << >> ] ]

\* PromoTypesAggregator.__init__: self.data, self.cards
PromoTypes_init == [ data |-> EmptyDict, cards |-> EmptyDict ]

PromoTypes_process_card(self, card) ==
    LET name == GetOrNone(card, "name")
        promo_types == Get(card, "promo_types", << >>)
    IN  IF promo_types # << >>
        THEN Returned(
               [ data |-> DictSet(self.data, name,
                                  DictGetDefault(self.data, name, {})
                                    \cup Range(promo_types)),
                 cards |-> IF name \notin DictKeys(self.cards)
                           THEN DictSet(self.cards, name, CardLink(card))
                           ELSE self.cards ])
        ELSE Returned(self)

PromoTypes_get_sorted_data(self) ==
    [ i \in 1..Len(self.data) |->
        [ name |-> self.data[i].key,
          promoTypes |-> SortedStrings(self.data[i].value, PromoTypeOrder),
          count |-> Cardinality(self.data[i].value),
          link |-> IF self.data[i].key \in DictKeys(self.cards)
                   THEN << DictGet(self.cards, self.data[i].key) >>
                   ELSE << >> ] ]

\* FoilTypesAggregator.__init__: self.data, self.cards
FoilTypes_init == [ data |-> EmptyDict, cards |-> EmptyDict ]

\* self.data[name] with more foil types in it (a defaultdict of sets).
FoilTypes_add(data, name, foil_types) ==
    DictSet(data, name, DictGetDefault(data, name, {}) \cup foil_types)

FoilTypes_process_card(self, card) ==
    LET name == GetOrNone(card, "name")
        set_ == GetOrNone(card, "set")
        cards == IF name \notin DictKeys(self.cards)
                 THEN DictSet(self.cards, name, CardLink(card))
                 ELSE self.cards
        promo_types == Get(card, "promo_types", << >>)
        with_promos ==
            IF promo_types # << >>
            THEN FoilTypes_add(self.data, name,
                               Range(promo_types) \cap FOIL_PROMO_TYPES)
            ELSE self.data
        with_vault ==
            IF GetOrNone(card, "set_type") = << "from_the_vault" >>
            THEN FoilTypes_add(with_promos, name, {"from_the_vault"})
            ELSE with_promos
        finishes == Range(Get(card, "finishes", << >>))
        release_date_str == Get(card, "released_at", << >>)
        with_foil ==
            IF "foil" \notin finishes THEN with_vault
            ELSE IF release_date_str = << >>
            THEN FoilTypes_add(with_vault, name, {"modern_foil"})
            ELSE IF DateLess(fromisoformat(release_date_str),
                             MODERN_FOIL_CUTOFF_DATE)
            THEN FoilTypes_add(with_vault, name, {"premodern_foil"})
            ELSE FoilTypes_add(with_vault, name, {"modern_foil"})
        with_etched ==
            IF "etched" \in finishes
            THEN FoilTypes_add(with_foil, name, {"etched"})
            ELSE with_foil
    IN  IF set_ # << >> /\ set_[1] \in DOMAIN SPECIAL_FOIL_SETS
        THEN Returned([ data |-> FoilTypes_add(self.data, name,
                                               { SPECIAL_FOIL_SETS[set_[1]] }),
                        cards |-> cards ])
        ELSE IF "foil" \in finishes /\ release_date_str # << >>
                /\ ~ IsIsoDate(release_date_str)
        THEN Raised([ data |-> with_vault, cards |-> cards ])
        ELSE Returned([ data |-> with_etched, cards |-> cards ])

FoilTypes_get_sorted_data(self) ==
    [ i \in 1..Len(self.data) |->
        [ name |-> self.data[i].key,
          foilTypes |-> SortedStrings(self.data[i].value, FoilTypeOrder),
          count |-> Cardinality(self.data[i].value),
          link |-> IF self.data[i].key \in DictKeys(self.cards)
                   THEN << DictGet(self.cards, self.data[i].key) >>
                   ELSE << >> ] ]

----------------------------------------------------------------------------
(* aggregators/first_card_aggregators.py *)

\* The result of a get_sorted_data call: the rows, or the call raised.
Rows(rows) == [ raised |-> FALSE, rows |-> rows ]

RaisedRows == [ raised |-> TRUE, rows |-> << >> ]

\* FirstCardByPowerToughnessAggregator.__init__: self.data
FirstCardByPowerToughness_init == EmptyDict

\* Mutant of FirstCardByPowerToughness_process_card: the first card seen
\* with a key is kept, whatever comes later.
FirstCardByPowerToughness_process_card_keep_first(self, card) ==
    LET power == Get(card, "power", "")
        toughness == Get(card, "toughness", "")
        key == << power, toughness >>
    IN  IF power = "" \/ toughness = "" \/ key \in DictKeys(self)
        THEN Returned(self)
        ELSE Returned(DictSet(self, key, card))

FirstCardByPowerToughness_process_card(self, card) ==
    LET power == Get(card, "power", "")
        toughness == Get(card, "toughness", "")
        key == << power, toughness >>
    IN  IF power = "" \/ toughness = "" THEN Returned(self)
        ELSE IF key \notin DictKeys(self)
        THEN Returned(DictSet(self, key, card))
        ELSE IF get_sort_key_raises(card)
                \/ get_sort_key_raises(DictGet(self, key))
        THEN Raised(self)
        ELSE IF SortKeyLess(get_sort_key(card),
                            get_sort_key(DictGet(self, key)))
        THEN Returned(DictSet(self, key, card))
        ELSE Returned(self)

FirstCardByPowerToughness_get_sorted_data(self) ==
    IF \E i \in 1..Len(self) : get_sort_key_raises(self[i].value)
    THEN RaisedRows
    ELSE LET items == Sorted(self, BySortKey(self))
         IN  Rows([ i \in 1..Len(items) |->
                      [ power |-> items[i].key[1],
                        toughness |-> items[i].key[2],
                        name |-> Get(items[i].value, "name", ""),
                        set |-> Get(items[i].value, "set", << >>),
                        releaseDate |-> Get(items[i].value, "released_at", << >>),
                        link |-> CardLink(items[i].value) ] ])

\* FirstCardByGeneralizedManaCostAggregator.__init__: self.data, self.count
FirstCardByGeneralizedManaCost_init ==
    [ data |-> EmptyDict, count |-> EmptyDict ]

FirstCardByGeneralizedManaCost_process_card(self, card) ==
    LET cost == Get(card, "mana_cost", << >>)
        generalized_cost == generalize_mana_cost(cost)
        count == DictSet(self.count, generalized_cost,
                         DictGetDefault(self.count, generalized_cost, 0) + 1)
    IN  IF cost = << >> THEN Returned(self)
        ELSE IF generalized_cost \notin DictKeys(self.data)
        THEN Returned([ data |-> DictSet(self.data, generalized_cost, card),
                        count |-> count ])
        ELSE IF get_sort_key_raises(card)
                \/ get_sort_key_raises(DictGet(self.data, generalized_cost))
        THEN Raised([ data |-> self.data, count |-> count ])
        ELSE IF SortKeyLess(get_sort_key(card),
                            get_sort_key(DictGet(self.data, generalized_cost)))
        THEN Returned([ data |-> DictSet(self.data, generalized_cost, card),
                        count |-> count ])
        ELSE Returned([ data |-> self.data, count |-> count ])

FirstCardByGeneralizedManaCost_get_sorted_data(self) ==
    IF \E i \in 1..Len(self.data) : get_sort_key_raises(self.data[i].value)
    THEN RaisedRows
    ELSE LET items == Sorted(self.data, BySortKey(self.data))
         IN  Rows([ i \in 1..Len(items) |->
                      [ generalizedManaCost |-> items[i].key,
                        name |-> Get(items[i].value, "name", ""),
                        set |-> Get(items[i].value, "set", << >>),
                        releaseDate |-> Get(items[i].value, "released_at", << >>),
                        originalManaCost |-> Get(items[i].value, "mana_cost", << >>),
                        count |-> DictGetDefault(self.count, items[i].key, 0),
                        link |-> CardLink(items[i].value) ] ])

----------------------------------------------------------------------------
(* aggregators/supercycle_aggregators.py *)

\* The supercycles file: each cycle's name, card names and finished flag.
\* No printing of the second tutor of the stream has a release date that is
\* a date, so that cycle is never seen whole.
SupercyclesFile ==
    << [ name |-> "Tutors", finished |-> TRUE,
         cards |-> << "Demonic Tutor", "Vampiric Tutor" >> ],
       [ name |-> "Elder Dragons", finished |-> FALSE,
         cards |-> << "Nicol Bolas", "Chromium" >> ],
       [ name |-> "Giants", finished |-> TRUE,
         cards |-> << "Elvish Giant", "Nicol Bolas" >> ] >>

\* SupercycleTimeAggregator.__init__: self.card_dates, self.card_data
Supercycle_init == [ card_dates |-> EmptyDict, card_data |-> EmptyDict ]

\* Mutant of Supercycle_process_card: the date of the printing read last is
\* kept.
Supercycle_process_card_latest(self, card) ==
    LET name == Get(card, "name", "")
        released_at == Get(card, "released_at", << >>)
        card_date == fromisoformat(released_at)
    IN  IF name = "" \/ released_at = << >> THEN Returned(self)
        ELSE IF ~ IsIsoDate(released_at) THEN Raised(self)
        ELSE Returned([ card_dates |-> DictSet(self.card_dates, name, card_date),
                        card_data |-> DictSet(self.card_data, name, card) ])

Supercycle_process_card(self, card) ==
    LET name == Get(card, "name", "")
        released_at == Get(card, "released_at", << >>)
        card_date == fromisoformat(released_at)
    IN  IF name = "" \/ released_at = << >> THEN Returned(self)
        ELSE IF ~ IsIsoDate(released_at) THEN Raised(self)
        ELSE IF name \notin DictKeys(self.card_dates)
                \/ DateLess(card_date, DictGet(self.card_dates, name))
        THEN Returned([ card_dates |-> DictSet(self.card_dates, name, card_date),
                        card_data |-> DictSet(self.card_data, name, card) ])
        ELSE Returned(self)

\* min() and max() of a non-empty list of dates.
MinDate(dates) ==
    dates[CHOOSE i \in 1..Len(dates) :
            \A j \in 1..Len(dates) : ~ DateLess(dates[j], dates[i])]

MaxDate(dates) ==
    dates[CHOOSE i \in 1..Len(dates) :
            \A j \in 1..Len(dates) : ~ DateLess(dates[i], dates[j])]

\* The row of one cycle that has a card in self.card_dates; "time" is the
\* text format_time_difference gives for "days" and is left to that field.
Supercycle_row(self, cycle, day) ==
    LET found == SelectSeq(cycle.cards,
                           LAMBDA card : card \in DictKeys(self.card_dates))
        card_dates == [ i \in 1..Len(found) |->
                          DictGet(self.card_dates, found[i]) ]
        earliest_date == MinDate(card_dates)
        latest_date == IF cycle.finished THEN MaxDate(card_dates) ELSE day
        with_data == SelectSeq(cycle.cards,
                               LAMBDA card : card \in DictKeys(self.card_data))
    IN  [ supercycle |-> cycle.name,
          status |-> IF cycle.finished THEN "Finished" ELSE "Unfinished",
          cards |-> cycle.cards,
          cardObjects |->
              [ i \in 1..Len(with_data) |->
                  [ name |-> with_data[i],
                    scryfall_uri |->
                        Get(DictGet(self.card_data, with_data[i]),
                            "scryfall_uri", ""),
                    image_uri |->
                        Get(Get(DictGet(self.card_data, with_data[i]),
                                "image_uris", NoFields), "normal", "") ] ],
          startDate |-> earliest_date,
          endDate |-> IF cycle.finished THEN << latest_date >> ELSE << >>,
          days |-> toordinal(latest_date) - toordinal(earliest_date) ]

\* The cycles get_sorted_data logs a warning about: the method has no
\* logging or printing call, and self.found_cards is never written.
Supercycle_warnings(self) == {}

\* Mutant of Supercycle_get_sorted_data: a cycle is reported only when
\* every one of its cards was observed.
Supercycle_get_sorted_data_whole_cycles(self, day) ==
    LET reported ==
            SelectSeq(SupercyclesFile,
                      LAMBDA cycle :
                          \A i \in 1..Len(cycle.cards) :
                              cycle.cards[i] \in DictKeys(self.card_dates))
        result == [ i \in 1..Len(reported) |->
                      Supercycle_row(self, reported[i], day) ]
    IN  Sorted(result, { p \in Pairs(result) :
                          result[p[1]].days > result[p[2]].days })

\* get_sorted_data on a day: date.today() is that day.
Supercycle_get_sorted_data(self, day) ==
    LET reported ==
            SelectSeq(SupercyclesFile,
                      LAMBDA cycle :
                          \E i \in 1..Len(cycle.cards) :
                              cycle.cards[i] \in DictKeys(self.card_dates))
        result == [ i \in 1..Len(reported) |->
                      Supercycle_row(self, reported[i], day) ]
    IN  Sorted(result, { p \in Pairs(result) :
                          result[p[1]].days > result[p[2]].days })

----------------------------------------------------------------------------
(* The type engine as one of the aggregators of a run *)

\* self.maximal_types as a dict: the map, and its keys in insertion order.
MaximalTypes_init == [ map |-> EmptyMap, order |-> << >> ]

\* The keys of a dict after an update that took it from one map to another.
OrderAfter(order, before, after) ==
    LET kept == Without(order, DOMAIN before \ DOMAIN after)
        inserted == DOMAIN after \ DOMAIN before
    IN  IF inserted = {} THEN kept
        ELSE Append(kept, CHOOSE key \in inserted : TRUE)

\* process_card of the engine: a face whose type_key is already a key
\* compares two sort keys, which raises on a release date that is no date;
\* the faces before it have been processed by then.
MaximalTypes_process_card(self, card) ==
    LET faces == FacesOf(card)
        Loop[i \in 0..Len(faces)] ==
            IF i = 0 THEN Returned(self)
            ELSE LET before == Loop[i - 1]
                     face == faces[i]
                     type_key == type_key_of(face)
                     map == before.self.map
                 IN  IF before.raised \/ IsSkippedFace(face) THEN before
                     ELSE IF type_key \in DOMAIN map
                             /\ ( \/ get_sort_key_raises(card)
                                  \/ get_sort_key_raises(map[type_key]) )
                     THEN Raised(before.self)
                     ELSE LET after == process_single_face(map, face, card)
                          IN  Returned(
                                [ map |-> after,
                                  order |-> OrderAfter(before.self.order,
                                                       map, after) ])
    IN  IF is_traditional_card(card) THEN Loop[Len(faces)]
        ELSE Returned(self)

MaximalTypes_get_sorted_data(self) ==
    IF \E key \in DOMAIN self.map : get_sort_key_raises(self.map[key])
    THEN RaisedRows
    ELSE LET items == [ i \in 1..Len(self.order) |->
                          [ key |-> self.order[i],
                            value |-> self.map[self.order[i]] ] ]
             sorted == Sorted(items, BySortKey(items))
         IN  Rows([ i \in 1..Len(sorted) |->
                      (IF variant = "plain"
                       THEN [ types |->
                                Get(sorted[i].value, "type_line", << >>) ]
                       ELSE [ originalTypes |->
                                Get(sorted[i].value, "type_line", << >>) ])
                      @@
                      [ name |-> Get(sorted[i].value, "name", ""),
                        set |-> Get(sorted[i].value, "set", << >>),
                        releaseDate |-> Get(sorted[i].value, "released_at", << >>),
                        image_uri |->
                            Get(Get(sorted[i].value, "image_uris", NoFields),
                                "normal", ""),
                        scryfall_uri |->
                            Get(sorted[i].value, "scryfall_uri", "") ] ])

----------------------------------------------------------------------------
(* card_aggregator.py: the aggregators of a run and the ingestion loop *)

\* The names of create_all_aggregators, in list order; the type engine of
\* the run is the one of the variant.
AggregatorNames ==
    IF variant = "plain"
    THEN << "count_cards_by_name", "count_finishes_by_name",
            "count_cards_by_set_name", "count_finishes_by_set_name",
            "count_card_illustrations_by_set", "max_collector_number_by_set",
            "maximal_printed_types", "promo_types_by_name",
            "first_card_by_power_toughness", "foil_types_by_name",
            "supercycle_completion_time",
            "first_card_by_generalized_mana_cost" >>
    ELSE << "count_cards_by_name", "count_finishes_by_name",
            "count_cards_by_set_name", "count_finishes_by_set_name",
            "count_card_illustrations_by_set", "max_collector_number_by_set",
            "promo_types_by_name", "first_card_by_power_toughness",
            "foil_types_by_name", "supercycle_completion_time",
            "maximal_types_with_effects",
            "first_card_by_generalized_mana_cost" >>

TypeEngineNames == {"maximal_printed_types", "maximal_types_with_effects"}

\* The aggregator a constructor of create_all_aggregators returns.
NewAggregator(name) ==
    CASE name \in {"count_cards_by_name", "count_finishes_by_name",
                   "count_cards_by_set_name", "count_finishes_by_set_name"}
           -> Count_init
      [] name = "count_card_illustrations_by_set" -> Illustrations_init
      [] name = "max_collector_number_by_set" -> MaxCollectorNumber_init
      [] name \in TypeEngineNames -> MaximalTypes_init
      [] name = "promo_types_by_name" -> PromoTypes_init
      [] name = "first_card_by_power_toughness" ->
           FirstCardByPowerToughness_init
      [] name = "foil_types_by_name" -> FoilTypes_init
      [] name = "supercycle_completion_time" -> Supercycle_init
      [] name = "first_card_by_generalized_mana_cost" ->
           FirstCardByGeneralizedManaCost_init

\* aggregator.process_card(card) of the aggregator of that name.
process_card_of(name, self, card) ==
    CASE name = "count_cards_by_name" ->
           Count_process_card(<< "name" >>, FALSE, self, card)
      [] name = "count_finishes_by_name" ->
           Count_process_card(<< "name" >>, TRUE, self, card)
      [] name = "count_cards_by_set_name" ->
           Count_process_card(<< "set", "name" >>, FALSE, self, card)
      [] name = "count_finishes_by_set_name" ->
           Count_process_card(<< "set", "name" >>, TRUE, self, card)
      [] name = "count_card_illustrations_by_set" ->
           Illustrations_process_card(self, card)
      [] name = "max_collector_number_by_set" ->
           MaxCollectorNumber_process_card(self, card)
      [] name \in TypeEngineNames -> MaximalTypes_process_card(self, card)
      [] name = "promo_types_by_name" -> PromoTypes_process_card(self, card)
      [] name = "first_card_by_power_toughness" ->
           FirstCardByPowerToughness_process_card(self, card)
      [] name = "foil_types_by_name" -> FoilTypes_process_card(self, card)
      [] name = "supercycle_completion_time" ->
           Supercycle_process_card(self, card)
      [] name = "first_card_by_generalized_mana_cost" ->
           FirstCardByGeneralizedManaCost_process_card(self, card)

\* Mutant of get_sorted_data_of: every aggregator stamps its output with
\* the day it was produced on.
get_sorted_data_of_dated(name, self, day) ==
    [ raised |-> FALSE, rows |-> << day, self >> ]

\* aggregator.get_sorted_data() of the aggregator of that name, called on
\* the day today.
get_sorted_data_of(name, self, day) ==
    CASE name \in {"count_cards_by_name", "count_finishes_by_name",
                   "count_cards_by_set_name", "count_finishes_by_set_name"}
           -> Rows(Count_get_sorted_data(self))
      [] name = "count_card_illustrations_by_set" ->
           Rows(Illustrations_get_sorted_data(self))
      [] name = "max_collector_number_by_set" ->
           Rows(MaxCollectorNumber_get_sorted_data(self))
      [] name \in TypeEngineNames -> MaximalTypes_get_sorted_data(self)
      [] name = "promo_types_by_name" -> Rows(PromoTypes_get_sorted_data(self))
      [] name = "first_card_by_power_toughness" ->
           FirstCardByPowerToughness_get_sorted_data(self)
      [] name = "foil_types_by_name" -> Rows(FoilTypes_get_sorted_data(self))
      [] name = "supercycle_completion_time" ->
           Rows(Supercycle_get_sorted_data(self, day))
      [] name = "first_card_by_generalized_mana_cost" ->
           FirstCardByGeneralizedManaCost_get_sorted_data(self)

\* Mutant of CardAfter: the promo-types aggregator pops the field it reads.
CardAfter_popped(name, card) ==
    IF name = "promo_types_by_name"
    THEN [ field \in DOMAIN card \ {"promo_types"} |-> card[field] ]
    ELSE card

\* The card record after process_card of an aggregator: no process_card
\* assigns into the record or into an object it holds.
CardAfter(name, card) == card

\* Mutant of LoopContinues: the exception leaves the loop.
LoopContinues_unless_raised(raised) == ~ raised

\* Whether the loops go on after a process_card call: "except Exception"
\* prints the error, nothing is re-raised.
LoopContinues(raised) == TRUE

\* One pass of "for aggregator in aggregators" for one card: the step of
\* the aggregator of that name.
RunAggregator(names, before, name) ==
    IF ~ before.running \/ name \notin names THEN before
    ELSE LET result == process_card_of(name, before.aggs[name], before.card)
         IN  [ aggs |-> [ before.aggs EXCEPT ![name] = result.self ],
               received |->
                   [ before.received EXCEPT ![name] = Append(@, before.card) ],
               raised |-> before.raised
                            \cup (IF result.raised THEN {name} ELSE {}),
               card |-> CardAfter(name, before.card),
               running |-> LoopContinues(result.raised) ]

\* The body of "for card in ijson.items(...)" for one card.
RunAggregators(names, run_aggs, run_received, card) ==
    LET Loop[i \in 0..Len(AggregatorNames)] ==
            IF i = 0
            THEN [ aggs |-> run_aggs, received |-> run_received,
                   raised |-> {}, card |-> card, running |-> TRUE ]
            ELSE CHOOSE after \in
                    { RunAggregator(names, before, AggregatorNames[i]) :
                        before \in { Loop[i - 1] } } : TRUE
    IN  Loop[Len(AggregatorNames)]

----------------------------------------------------------------------------
(* card_aggregator.py: two runs over one card stream *)

\* Printings of the stream; "released_at" of one of them is no ISO date.
NotADate == << "s", "o", "o", "n" >>

CostOneBlack == << "{", "1", "}", "{", "B", "}" >>

DemonicTutor ==
    Traditional([ name |-> "Demonic Tutor", type_line |-> << "Instant" >>,
                  set |-> SetLEA, released_at |-> Date1993,
                  collector_number |-> << "1" >>,
                  mana_cost |-> CostOneBlack,
                  finishes |-> << "nonfoil" >>,
                  illustration_id |-> "tutor-a",
                  scryfall_uri |-> "uri-demonic-tutor",
                  image_uris |-> [ normal |-> "img-demonic-tutor" ] ])

DemonicTutorPromo ==
    Traditional([ name |-> "Demonic Tutor", type_line |-> << "Instant" >>,
                  set |-> SetLEA, released_at |-> Date2011,
                  collector_number |-> << "2", "a" >>,
                  mana_cost |-> CostOneBlack,
                  finishes |-> << "nonfoil", "foil", "etched" >>,
                  promo_types |-> << "textured", "boosterfun" >>,
                  illustration_id |-> "tutor-b",
                  scryfall_uri |-> "uri-demonic-tutor-promo" ])

VampiricTutorUndated ==
    Traditional([ name |-> "Vampiric Tutor", type_line |-> << "Instant" >>,
                  set |-> SetLEA, released_at |-> NotADate,
                  collector_number |-> << "3" >>,
                  mana_cost |-> << "{", "1", "}", "{", "G", "}" >>,
                  finishes |-> << "foil" >>,
                  promo_types |-> << "galaxyfoil" >>,
                  power |-> "7", toughness |-> "7",
                  illustration_id |-> "tutor-c" ])

NicolBolas ==
    Traditional([ name |-> "Nicol Bolas",
                  type_line |-> << "Legendary", "Creature", "--", "Wizard" >>,
                  set |-> SetMPS, released_at |-> Date2011,
                  collector_number |-> << "4" >>,
                  mana_cost |-> << "{", "U", "}", "{", "B", "}", "{", "R", "}" >>,
                  finishes |-> << "foil" >>,
                  power |-> "7", toughness |-> "7",
                  illustration_id |-> "bolas",
                  image_uris |-> [ normal |-> "img-nicol-bolas" ] ])

ElvishGiant ==
    [ LlanowarElves EXCEPT !.name = "Elvish Giant" ]
        @@ [ mana_cost |-> << "{", "G", "}" >>,
             finishes |-> << "nonfoil", "foil" >>,
             power |-> "7", toughness |-> "7" ]

NamelessCard ==
    [ type_line |-> << "Land" >>, released_at |-> Date2011,
      finishes |-> << "foil" >>, promo_types |-> << "boosterfun" >>,
      power |-> "7", toughness |-> "7" ]

StreamCards ==
    { DemonicTutor, DemonicTutorPromo, VampiricTutorUndated, NicolBolas,
      ElvishGiant, NamelessCard }

\* The longest card stream of the model.
MaxStream == 3

\* The days a run can be finalized on: date.today() of two successive days.
Days == << << 2026, 11, 5 >>, << 2026, 11, 6 >> >>

\* Run 1 has every aggregator of create_all_aggregators, run 2 the ones
\* in "active".
Runs == {1, 2}

ActiveOf(run) == IF run = 1 THEN Range(AggregatorNames) ELSE active

\* The engine as constructed from readable files, of either variant.
EngineLoaded ==
    /\ variant \in {"plain", "effects"}
    /\ all_creature_types_file = CreatureTypesFile
    /\ all_land_types_file = LandTypesFile
    /\ all_creature_types = load_types(all_creature_types_file)
    /\ all_land_types = load_types(all_land_types_file)
    /\ nonbasic_land_types = NonbasicLandTypes(all_land_types)
    /\ maximal_types = EmptyMap
    /\ offered = {}
    /\ last_card = << >>

\* Two fresh sets of aggregators, no card read, nothing finalized.
FreshRuns ==
    /\ aggregators =
         [ run \in Runs |->
             [ name \in Range(AggregatorNames) |-> NewAggregator(name) ] ]
    /\ stream = << >>
    /\ received =
         [ run \in Runs |-> [ name \in Range(AggregatorNames) |-> << >> ] ]
    /\ faults = {}
    /\ today = Days[1]
    /\ output = [ run \in Runs |-> << >> ]

InitPipeline ==
    /\ EngineLoaded
    /\ EffectsUnused
    /\ SortKeysUnused
    /\ ManaUnused
    /\ active \in { Range(AggregatorNames) }
                    \cup { { name } : name \in Range(AggregatorNames) }
    /\ FreshRuns

\* One card of the stream goes through the loop of each run.
Deliver(card) ==
    \E after \in { [ run \in Runs |->
                       RunAggregators(ActiveOf(run), aggregators[run],
                                      received[run], card) ] } :
        /\ aggregators' = [ run \in Runs |-> after[run].aggs ]
        /\ received' = [ run \in Runs |-> after[run].received ]
        /\ faults' =
             faults \cup UNION { { [ run |-> run, name |-> name,
                                     position |-> Len(stream) + 1 ] :
                                     name \in after[run].raised } :
                                   run \in Runs }
        /\ stream' = Append(stream, card)
        /\ UNCHANGED << active, today, output >>
        /\ UNCHANGED << EngineVars, EffectVars, SortKeyVars, ManaVars >>

\* The ingestion loop reads a card; the output files are written after it.
Ingest(card) ==
    /\ Len(stream) < MaxStream
    /\ \A run \in Runs : output[run] = << >>
    /\ Deliver(card)

\* The output phase of a run: get_sorted_data of each of its aggregators.
Finalize(run) ==
    /\ output[run] = << >>
    /\ output' =
         [ output EXCEPT ![run] =
             << [ day |-> today,
                  data |-> [ name \in ActiveOf(run) |->
                               get_sorted_data_of(name, aggregators[run][name],
                                                  today) ],
                  warnings |->
                      IF "supercycle_completion_time" \in ActiveOf(run)
                      THEN Supercycle_warnings(
                             aggregators[run]["supercycle_completion_time"])
                      ELSE {} ] >> ]
    /\ UNCHANGED << active, stream, aggregators, received, faults, today >>
    /\ UNCHANGED << EngineVars, EffectVars, SortKeyVars, ManaVars >>

\* Midnight passes.
Tick ==
    /\ \E i \in 1..(Len(Days) - 1) : today = Days[i] /\ today' = Days[i + 1]
    /\ UNCHANGED << active, stream, aggregators, received, faults, output >>
    /\ UNCHANGED << EngineVars, EffectVars, SortKeyVars, ManaVars >>

NextPipeline ==
    \/ \E card \in StreamCards : Ingest(card)
    \/ \E run \in Runs : Finalize(run)
    \/ Tick

SpecPipeline == InitPipeline /\ [][NextPipeline]_vars

----------------------------------------------------------------------------
(* process_card on cards with absent fields *)

\* A printing with every field the aggregators read.
FullCard ==
    [ name |-> "Nicol Bolas",
      type_line |-> << "Legendary", "Creature", "--", "Wizard" >>,
      set |-> SetISD, released_at |-> Date2011,
      collector_number |-> << "4" >>,
      mana_cost |-> << "{", "U", "}", "{", "B", "}", "{", "R", "}" >>,
      finishes |-> << "nonfoil", "foil", "etched" >>,
      promo_types |-> << "textured", "boosterfun" >>,
      power |-> "7", toughness |-> "7",
      set_type |-> "from_the_vault",
      illustration_id |-> "bolas",
      image_uris |-> [ normal |-> "img-nicol-bolas" ] ]

\* The same printing with any subset of its fields absent.
PartialCards ==
    { [ field \in present |-> FullCard[field] ] :
        present \in SUBSET DOMAIN FullCard }

InitPartial ==
    /\ EngineLoaded
    /\ EffectsUnused
    /\ SortKeysUnused
    /\ ManaUnused
    /\ active = {}
    /\ FreshRuns

\* A partial card is read first, or right after the full printing.
IngestPartial(card) ==
    /\ stream = << >> \/ stream = << FullCard >>
    /\ Deliver(card)

NextPartial == \E card \in PartialCards : IngestPartial(card)

SpecPartial == InitPartial /\ [][NextPartial]_vars

----------------------------------------------------------------------------
(* Properties of the antichain map *)

Keys == DOMAIN maximal_types

Subset(a, b) == Range(a) \subseteq Range(b)

OfferedKeys == { o.key : o \in offered }

\* The elements of a set of keys that no other element contains.
MaximalElements(S) == { k \in S : \A j \in S : Subset(k, j) => j = k }

\* The map after the last of the steps of a call that started from map.
FinalMap(map, steps) ==
    IF Len(steps) = 0 THEN map ELSE steps[Len(steps)].after

\* C1: antichain invariant - for every two distinct keys A and B stored in
\* maximal_types (plain or effects-aware engine), A is not a subset of B and
\* B is not a subset of A.
C1_Antichain ==
    \A a, b \in Keys : a # b => ~ Subset(a, b) /\ ~ Subset(b, a)

\* Several incomparable keys are stored after a smaller key was subsumed.
C1_Witness ==
    /\ Cardinality(Keys) >= 3
    /\ \E o \in offered : o.key \notin Keys

\* C2: coverage - every TypeSet that was ever offered to the engine is a
\* subset of (or equal to) some key stored now.
C2_Coverage ==
    \A o \in offered : \E k \in Keys : Subset(o.key, k)

\* The last card was rejected (its key is not stored), and an offered key
\* that dominates another offered key has itself been subsumed.
C2_Witness ==
    /\ last_card # << >>
    /\ OfferedBy(last_card[1]) # {}
    /\ \A o \in OfferedBy(last_card[1]) : o.key \notin Keys
    /\ \E o1, o2 \in offered :
          /\ o1.key # o2.key /\ Subset(o1.key, o2.key)
          /\ o2.key \notin Keys

\* C3: the set of keys is exactly the set of subset-maximal computed
\* TypeSets of all processed, non-skipped faces (hence independent of the
\* order of the cards).
C3_KeysAreMaximalElements ==
    Keys = MaximalElements(OfferedKeys)

\* A strict subset was offered last, after its superset: only the superset
\* is a key.
C3_Witness ==
    /\ last_card # << >>
    /\ \E o \in OfferedBy(last_card[1]) :
          /\ o.key \notin Keys
          /\ \E k \in Keys : Subset(o.key, k)
    /\ \E o \in offered : o.key \in Keys /\ o.card # last_card[1]

\* C4 for one face: the type_key K of a processed face that is not yet a key
\* leaves the map unchanged when a key is a superset of K, and otherwise
\* deletes exactly the keys that are subsets of K and inserts K with the
\* parent card; whatever the face, a key only disappears as a subset of an
\* inserted K.
C4_Step(step, parent_card) ==
    LET K == type_key_of(step.face)
        before == step.before
        after == step.after
        offers == ~ ("Token" \in extract_types(step.face)
                      \/ "Emblem" \in extract_types(step.face))
    IN  /\ (offers /\ K \notin DOMAIN before) =>
              IF \E k \in DOMAIN before : Subset(K, k)
              THEN after = before
              ELSE /\ DOMAIN after =
                        (DOMAIN before
                           \ { k \in DOMAIN before : Subset(k, K) }) \cup {K}
                   /\ after[K] = parent_card
                   /\ \A k \in DOMAIN after \ {K} : after[k] = before[k]
        /\ \A k \in DOMAIN before \ DOMAIN after :
              offers /\ Subset(k, K) /\ K \in DOMAIN after
                     /\ K \notin DOMAIN before

\* C4: insertion of a new key - see C4_Step; the map after the call is the
\* map after the last face, or the old map when no face is processed.
C4_InsertNewKey ==
    [][ \A card \in Cards : << card >> = last_card' =>
          LET steps == StepsOf(maximal_types, card)
          IN  /\ \A i \in 1..Len(steps) : C4_Step(steps[i], card)
              /\ FinalMap(maximal_types, steps) = maximal_types' ]_vars

\* The last card inserted a new key that subsumed a stored key.
C4_Witness ==
    /\ last_card # << >>
    /\ \E o \in OfferedBy(last_card[1]) :
          /\ o.key \in Keys
          /\ maximal_types[o.key] = last_card[1]
          /\ \E p \in offered : p.key # o.key /\ Subset(p.key, o.key)
                                  /\ p.card # last_card[1]
    /\ Cardinality(Keys) >= 2

\* C5 for one face: when the type_key K of a processed face is already a
\* key, the key set and all other representatives are unchanged and K's
\* representative becomes the parent card iff its sort key is strictly
\* smaller than the stored representative's.
C5_Step(step, parent_card) ==
    LET K == type_key_of(step.face)
        before == step.before
        after == step.after
        offers == ~ ("Token" \in extract_types(step.face)
                      \/ "Emblem" \in extract_types(step.face))
    IN  (offers /\ K \in DOMAIN before) =>
           /\ DOMAIN after = DOMAIN before
           /\ \A k \in DOMAIN before \ {K} : after[k] = before[k]
           /\ after[K] =
                 IF SortKeyLess(get_sort_key(parent_card),
                                get_sort_key(before[K]))
                 THEN parent_card ELSE before[K]

\* C5: update of an existing key - see C5_Step.
C5_ExistingKey ==
    [][ \A card \in Cards : << card >> = last_card' =>
          LET steps == StepsOf(maximal_types, card)
          IN  /\ \A i \in 1..Len(steps) : C5_Step(steps[i], card)
              /\ FinalMap(maximal_types, steps) = maximal_types' ]_vars

\* An earlier printing has replaced a later one, and a tied printing that
\* came later has not replaced the stored one.
C5_Witness ==
    /\ \E o \in offered :
          /\ o.key \in Keys
          /\ SortKeyLess(get_sort_key(maximal_types[o.key]),
                         get_sort_key(o.card))
    /\ last_card # << >>
    /\ \E o \in OfferedBy(last_card[1]) :
          /\ o.key \in Keys
          /\ maximal_types[o.key] # last_card[1]
          /\ get_sort_key(maximal_types[o.key]) = get_sort_key(last_card[1])

\* C6: the antichain update is not commutative - there are two cards whose
\* processing from the empty map in the two possible orders yields different
\* maps.
C6_NotCommutative ==
    \E c1, c2 \in Cards :
        \E m1 \in { process_card(EmptyMap, c1) },
           m2 \in { process_card(EmptyMap, c2) } :
            process_card(m1, c2) # process_card(m2, c1)

\* Two different cards with equal sort keys were offered with the same key:
\* the stored one is the one that came first.
C6_Witness ==
    \E o1, o2 \in offered :
        /\ o1.key = o2.key /\ o1.card # o2.card
        /\ get_sort_key(o1.card) = get_sort_key(o2.card)
        /\ o1.key \in Keys
        /\ maximal_types[o1.key] = o1.card

\* The card's keyword list contains "Changeling", or its name is
\* "Mistform Ultimus".
HasChangeling(card) ==
    \/ Get(card, "name", "") = "Mistform Ultimus"
    \/ "Changeling" \in Range(Get(card, "keywords", << >>))

\* C7: every TypeSet that a traditional card with keyword "Changeling" (or
\* named "Mistform Ultimus") contributes to the antichain update contains
\* the whole creature-type vocabulary.
C7_ChangelingFullVocabulary ==
    \A o \in offered :
        HasChangeling(o.card) => all_creature_types \subseteq Range(o.key)

\* set_type in {memorabilia, funny}, layout in {emblem, token}, set code
\* "past", or border color in {silver, gold}.
NonTraditional(card) ==
    \/ Get(card, "set_type", "") \in {"memorabilia", "funny"}
    \/ Get(card, "layout", "") \in {"emblem", "token"}
    \/ Get(card, "set", << >>) = << "p", "a", "s", "t" >>
    \/ Get(card, "border_color", "") \in {"silver", "gold"}

\* C8: processing a non-traditional card leaves the antichain map unchanged.
C8_NonTraditionalIgnored ==
    [][ \A card \in Cards :
          (<< card >> = last_card' /\ NonTraditional(card)) =>
             maximal_types = maximal_types' ]_vars

\* A non-traditional card with faces was processed last on a non-empty map,
\* and no key of the map is represented by it.
C8_Witness ==
    /\ last_card # << >>
    /\ NonTraditional(last_card[1])
    /\ "card_faces" \in DOMAIN last_card[1]
    /\ Keys # {}
    /\ \A k \in Keys : maximal_types[k] # last_card[1]

\* The extracted TypeSet of the face contains "Token" or "Emblem".
HasTokenOrEmblem(face) ==
    "Token" \in extract_types(face) \/ "Emblem" \in extract_types(face)

\* The faces of a sequence that are not token or emblem faces.
RealFaces(faces) ==
    Without(faces, { faces[i] : i \in { j \in 1..Len(faces) :
                                          HasTokenOrEmblem(faces[j]) } })

\* C9: a face whose extracted TypeSet contains "Token" or "Emblem" never
\* changes the map, and the call has the effect of processing the other
\* faces of the card.
C9_TokenFaceSkipped ==
    [][ \A card \in Cards : << card >> = last_card' =>
          LET steps == StepsOf(maximal_types, card)
          IN  /\ \A i \in 1..Len(steps) :
                    HasTokenOrEmblem(steps[i].face) =>
                       steps[i].after = steps[i].before
              /\ ~ NonTraditional(card) =>
                    FinalMap(maximal_types,
                             FaceSteps(maximal_types,
                                       RealFaces(FacesOf(card)), card))
                       = maximal_types' ]_vars

\* The last card has a token face and another face, and represents the key
\* of its other face.
C9_Witness ==
    /\ last_card # << >>
    /\ \E i, j \in 1..Len(FacesOf(last_card[1])) :
          /\ HasTokenOrEmblem(FacesOf(last_card[1])[i])
          /\ ~ HasTokenOrEmblem(FacesOf(last_card[1])[j])
          /\ type_key_of(FacesOf(last_card[1])[j]) \in Keys
          /\ maximal_types[type_key_of(FacesOf(last_card[1])[j])]
                = last_card[1]

\* The face has keyword "Changeling" or is named "Mistform Ultimus" or
\* "Planar Nexus".
IsSpecialFace(face) ==
    \/ HasChangeling(face)
    \/ Get(face, "name", "") = "Planar Nexus"

\* C10: an unreadable vocabulary file gives an empty vocabulary, and with
\* empty vocabularies the plain engine offers the extracted TypeSet of every
\* Changeling, Mistform Ultimus or Planar Nexus face.
C10_UnreadableVocabulary ==
    /\ ~ all_creature_types_file.readable => all_creature_types = {}
    /\ ~ all_land_types_file.readable =>
          all_land_types = {} /\ nonbasic_land_types = {}
    /\ ( /\ variant = "plain"
         /\ ~ all_creature_types_file.readable
         /\ ~ all_land_types_file.readable
         /\ last_card # << >>
         /\ ~ NonTraditional(last_card[1]) ) =>
          \A i \in 1..Len(FacesOf(last_card[1])) :
             LET face == FacesOf(last_card[1])[i]
             IN  (IsSpecialFace(face) /\ ~ HasTokenOrEmblem(face)) =>
                    [ key |-> SortedTuple(extract_types(face)),
                      card |-> last_card[1] ] \in offered

\* Both files are unreadable and the plain engine has stored a Changeling
\* card and Planar Nexus under their extracted TypeSets.
C10_Witness ==
    /\ variant = "plain"
    /\ ~ all_creature_types_file.readable
    /\ ~ all_land_types_file.readable
    /\ \E k1, k2 \in Keys :
          /\ HasChangeling(maximal_types[k1])
          /\ Range(k1) = extract_types(maximal_types[k1])
          /\ Get(maximal_types[k2], "name", "") = "Planar Nexus"
          /\ Range(k2) = extract_types(maximal_types[k2])

----------------------------------------------------------------------------
(* Properties of apply_global_effects *)

\* C11: the result of apply_global_effects depends on the order of the
\* table: some TypeSet and some reordering of the same effects give a
\* TypeSet other than the one the specified order gives.
C11_EffectOrderMatters ==
    \E types \in EffectInputs :
        \E i, j \in 1..Len(global_effects) :
            /\ i < j
            /\ ApplyInOrder(Swapped(i, j), types) # apply_global_effects(types)

\* A reordered table was applied and returned another TypeSet than the
\* specified order returns for the same input.
C11_Witness ==
    /\ effect_order # global_effects
    /\ Range(effect_order) = Range(global_effects)
    /\ effect_result # apply_global_effects(effect_input)

----------------------------------------------------------------------------
(* Properties of get_sort_key *)

\* A field of a card record as read by the claims: << >> when the field is
\* absent, << value >> when it is present.
Field(card, field) ==
    IF field \in DOMAIN card THEN << card[field] >> ELSE << >>

\* The (release date, set code, collector number) triple of a card.
Triple(card) ==
    << Field(card, "released_at"), Field(card, "set"),
       Field(card, "collector_number") >>

\* C16: two cards whose (release date, set code, collector number) triples
\* differ, a missing field differing from every present value, have sort
\* keys of which exactly one is smaller than the other; equal keys only
\* come from identical triples.
C16_SortKeyTotalOrder ==
    Triple(card_a) # Triple(card_b) =>
        /\ key_a # key_b
        /\ SortKeyLess(key_a, key_b) # SortKeyLess(key_b, key_a)

\* The collector number with its non-digit characters removed, as an
\* integer; 0 when no digit remains.
StrippedNumber(card) ==
    LET number == Get(card, "collector_number", << >>)
        digits == SelectSeq(number, LAMBDA c : c \in Digits)
    IN  IF digits = << >> THEN 0 ELSE IntOfDigits(digits)

\* C17: of two cards with equal release date and equal set code, the one
\* with the smaller stripped collector number has the smaller sort key;
\* when the numbers tie, the one with the lexicographically smaller
\* collector-number string has the smaller key.
C17_CollectorNumberOrder ==
    (key_a[1] = key_b[1] /\ key_a[2] = key_b[2]) =>
        /\ StrippedNumber(card_a) < StrippedNumber(card_b)
              => SortKeyLess(key_a, key_b)
        /\ ( /\ StrippedNumber(card_a) = StrippedNumber(card_b)
             /\ StrLess(Get(card_a, "collector_number", << >>),
                        Get(card_b, "collector_number", << >>)) )
              => SortKeyLess(key_a, key_b)

\* "1" and "1a" in the same set on the same date: the numbers tie at 1 and
\* the shorter string has the smaller key.
C17_Witness ==
    /\ Field(card_a, "released_at") = << Date1993 >>
    /\ Field(card_b, "released_at") = << Date1993 >>
    /\ Field(card_a, "set") = << SetLEA >>
    /\ Field(card_b, "set") = << SetLEA >>
    /\ Field(card_a, "collector_number") = << << "1" >> >>
    /\ Field(card_b, "collector_number") = << << "1", "a" >> >>
    /\ key_a[3] = key_b[3]
    /\ SortKeyLess(key_a, key_b)

----------------------------------------------------------------------------
(* Properties of generalize_mana_cost *)

\* The colour letters that occur in a mana cost.
DistinctColors(cost) == Range(cost) \cap {"W", "U", "B", "R", "G"}

\* C18: for a mana cost with at most 4 distinct colour letters,
\* generalising the generalised cost changes nothing.
C18_Idempotent ==
    (regeneralized # << >> /\ Cardinality(DistinctColors(mana_cost)) <= 4)
        => regeneralized[1] = generalized[1]

\* A cost with a colour in it was generalised to another string, and that
\* string was generalised again.
C18_Witness ==
    /\ regeneralized # << >>
    /\ Cardinality(DistinctColors(mana_cost)) \in 1..4
    /\ generalized[1] # mana_cost
    /\ regeneralized[1] = generalized[1]

\* The transpositions of two colour letters and a rotation of all five:
\* every permutation of the five letters is a composition of these.
Renamings ==
    LET letters == {"W", "U", "B", "R", "G"}
        rotation == [ c \in letters |->
                        CASE c = "W" -> "U" [] c = "U" -> "B" [] c = "B" -> "R"
                          [] c = "R" -> "G" [] c = "G" -> "W" ]
    IN  { [ c \in letters |-> IF c = x THEN y ELSE IF c = y THEN x ELSE c ] :
            x \in letters, y \in letters } \cup { rotation }

\* The mana cost with its colour letters renamed.
Renamed(p, cost) ==
    [ i \in 1..Len(cost) |->
        IF cost[i] \in DOMAIN p THEN p[cost[i]] ELSE cost[i] ]

\* The number of distinct colours that have appeared up to position i.
ColorsUpTo(cost, i) == Cardinality(DistinctColors(SubSeq(cost, 1, i)))

\* First position at which the character at position i occurs.
FirstOccurrence(cost, i) ==
    CHOOSE j \in 1..i : cost[j] = cost[i] /\ \A k \in 1..(j - 1) : cost[k] # cost[i]

\* C19: for a mana cost with at most 4 distinct colours, renaming the five
\* colour letters by a permutation does not change the generalised cost,
\* and the k-th distinct colour in order of first appearance becomes the
\* k-th letter of M, N, O, P.
C19_RenamingInvariant ==
    (generalized # << >> /\ Cardinality(DistinctColors(mana_cost)) <= 4) =>
        /\ \A p \in Renamings :
              generalize_mana_cost(Renamed(p, mana_cost)) = generalized[1]
        /\ \A i \in 1..Len(mana_cost) :
              mana_cost[i] \in DistinctColors(mana_cost) =>
                generalized[1][i] =
                    << "M", "N", "O", "P" >>[
                        ColorsUpTo(mana_cost, FirstOccurrence(mana_cost, i)) ]

\* "UWU" was generalised to "MNM".
C19_Witness ==
    /\ mana_cost = << "U", "W", "U" >>
    /\ generalized = << << "M", "N", "M" >> >>

\* C20: generalize_mana_cost returns a string as long as its argument, and
\* returns the argument itself, nothing substituted, when it holds more
\* than 4 distinct colour letters.
C20_SameLengthOrUnchanged ==
    generalized # << >> =>
        /\ Len(generalized[1]) = Len(mana_cost)
        /\ Cardinality(DistinctColors(mana_cost)) > 4
              => generalized[1] = mana_cost

\* A cost with all five colours was handed to the function and came back
\* as it was.
C20_Witness ==
    /\ Cardinality(DistinctColors(mana_cost)) = 5
    /\ generalized = << mana_cost >>

----------------------------------------------------------------------------
(* Properties of the ingestion loop *)

\* C13: fault isolation.  Whatever calls of process_card have raised, every
\* active aggregator of a run, the faulting ones included, has been called
\* with every card of the stream, in stream order.
C13_FaultIsolation ==
    \A run \in Runs : \A name \in ActiveOf(run) :
        received[run][name] = stream

\* A call raised on the first of two cards in an aggregator that is not the
\* last of the list; the aggregators after it and the faulting one were
\* called with both cards.
C13_Witness ==
    /\ Len(stream) = 2
    /\ \E fault \in faults :
          /\ fault.run = 1
          /\ fault.position = 1
          /\ fault.name = "foil_types_by_name"
          /\ received[1]["supercycle_completion_time"] = stream
          /\ received[1]["foil_types_by_name"] = stream
          /\ aggregators[1]["first_card_by_generalized_mana_cost"]
               # NewAggregator("first_card_by_generalized_mana_cost")

\* C15: accumulator independence.  An aggregator that runs alone, or with
\* any of the others, holds the same state after every card as the same
\* aggregator in a run of all of them, was called with the cards of the
\* stream as they were read, and gives the same get_sorted_data result when
\* both runs are finalized on the same day.
C15_AccumulatorIndependence ==
    \A name \in active :
        /\ aggregators[2][name] = aggregators[1][name]
        /\ received[1][name] = stream
        /\ received[2][name] = stream
        /\ \A alone \in Range(output[2]), together \in Range(output[1]) :
              alone.day = together.day =>
                  alone.data[name] = together.data[name]

\* The foil-types aggregator has run alone and, in the other run, after the
\* promo-types aggregator that reads the same field of the same cards; both
\* runs are finalized and the foil types of a promo printing are reported.
C15_Witness ==
    /\ active = { "foil_types_by_name" }
    /\ stream = << DemonicTutorPromo, NicolBolas >>
    /\ output[1] # << >>
    /\ output[2] # << >>
    /\ output[1][1].day = output[2][1].day
    /\ output[2][1].data["foil_types_by_name"].rows # << >>
    /\ aggregators[1]["promo_types_by_name"] # PromoTypes_init

----------------------------------------------------------------------------
(* Properties of get_sorted_data *)

\* C12 as stated: two fresh sets of aggregators fed the same stream give
\* identical get_sorted_data results from every aggregator, the supercycle
\* aggregator included.  (Violated: an unfinished cycle ends "today".)
C12_Determinism ==
    active = Range(AggregatorNames) =>
        \A first \in Range(output[1]), second \in Range(output[2]) :
            first.data = second.data

\* C12, amended: two fresh sets of aggregators fed the same stream give
\* identical get_sorted_data results from every aggregator but the
\* supercycle one whenever they are finalized, and from the supercycle
\* aggregator when date.today() is the same day in both calls, or when
\* none of the reported cycles is unfinished.
C12_DeterminismOnOneDay ==
    active = Range(AggregatorNames) =>
        \A first \in Range(output[1]), second \in Range(output[2]) :
            \A name \in Range(AggregatorNames) :
                \/ first.data[name] = second.data[name]
                \/ /\ name = "supercycle_completion_time"
                   /\ first.day # second.day
                   /\ \E i \in 1..Len(first.data[name].rows) :
                         first.data[name].rows[i].status = "Unfinished"

\* Both runs have all aggregators, have read two cards and are finalized on
\* different days; a finished cycle is reported, the same in both.
C12_Witness ==
    /\ active = Range(AggregatorNames)
    /\ stream = << DemonicTutor, DemonicTutorPromo >>
    /\ output[1] # << >>
    /\ output[2] # << >>
    /\ output[1][1].day # output[2][1].day
    /\ output[1][1].data["supercycle_completion_time"].rows # << >>
    /\ output[1][1].data = output[2][1].data

----------------------------------------------------------------------------
(* Properties of process_card on partial cards *)

\* C14: a card whose present fields are well formed, with any subset of the
\* fields absent, makes no process_card raise, whether it is the first card
\* or follows a full printing it is compared with.
C14_AbsentFieldsNeverRaise ==
    \A fault \in faults : stream[fault.position] \notin PartialCards

\* A card with power, toughness and mana cost but neither release date, set,
\* collector number nor name was read after the full printing: the
\* first-card aggregators compared the sort keys of the two and kept the
\* full printing, and the mana-cost count went up.
C14_Witness ==
    /\ Len(stream) = 2
    /\ stream[1] = FullCard
    /\ DOMAIN stream[2] = { "power", "toughness", "mana_cost", "finishes" }
    /\ faults = {}
    /\ DictGet(aggregators[1]["first_card_by_power_toughness"],
               << "7", "7" >>) = FullCard
    /\ aggregators[1]["first_card_by_generalized_mana_cost"].count[1].value = 2

----------------------------------------------------------------------------
(* Properties of the first-card aggregators *)

WellDated(card) == ~ get_sort_key_raises(card)

HasPowerToughness(card) ==
    Get(card, "power", "") # "" /\ Get(card, "toughness", "") # ""

PowerToughnessOf(card) ==
    << Get(card, "power", ""), Get(card, "toughness", "") >>

HasManaCost(card) == Get(card, "mana_cost", << >>) # << >>

GeneralizedCostOf(card) == generalize_mana_cost(Get(card, "mana_cost", << >>))

\* The positions of the stream whose card has a key, and the keys there.
PowerToughnessKeys ==
    [ i \in { j \in 1..Len(stream) : HasPowerToughness(stream[j]) } |->
        PowerToughnessOf(stream[i]) ]

GeneralizedCostKeys ==
    [ i \in { j \in 1..Len(stream) : HasManaCost(stream[j]) } |->
        GeneralizedCostOf(stream[i]) ]

\* A dict of retained cards holds, for each key some card of the stream
\* has, a card of the stream with that key and the smallest sort key.
RetainsEarliest(data, keys) ==
    /\ DictKeys(data) = { keys[i] : i \in DOMAIN keys }
    /\ \A key \in DictKeys(data) :
          /\ \E i \in DOMAIN keys :
                keys[i] = key /\ stream[i] = DictGet(data, key)
          /\ \A i \in DOMAIN keys :
                keys[i] = key =>
                    ~ SortKeyLess(get_sort_key(stream[i]),
                                  get_sort_key(DictGet(data, key)))

\* The retained cards of the rows, in row order, never go down in sort key.
AscendingSortKeys(cards) ==
    \A i, j \in 1..Len(cards) :
        i < j => ~ SortKeyLess(get_sort_key(cards[j]), get_sort_key(cards[i]))

----------------------------------------------------------------------------
(* Properties of the count aggregators *)

\* The key fields and the count_finishes flag create_all_aggregators gives
\* each CountAggregator.
CountConfigs ==
    [ count_cards_by_name |-> [ key_fields |-> << "name" >>,
                                count_finishes |-> FALSE ],
      count_finishes_by_name |-> [ key_fields |-> << "name" >>,
                                   count_finishes |-> TRUE ],
      count_cards_by_set_name |-> [ key_fields |-> << "set", "name" >>,
                                    count_finishes |-> FALSE ],
      count_finishes_by_set_name |-> [ key_fields |-> << "set", "name" >>,
                                       count_finishes |-> TRUE ] ]

\* The key tuple of each card of the stream that has all the key fields.
CountKeys(key_fields) ==
    [ i \in { j \in 1..Len(stream) :
                Range(key_fields) \subseteq DOMAIN stream[j] } |->
        [ k \in 1..Len(key_fields) |-> stream[i][key_fields[k]] ] ]

\* What the cards of the stream with a key add up to.
CountExpected(config, key) ==
    LET keys == CountKeys(config.key_fields)
        Total[i \in 0..Len(stream)] ==
            IF i = 0 THEN 0
            ELSE Total[i - 1]
                   + (IF i \in DOMAIN keys /\ keys[i] = key
                      THEN (IF config.count_finishes
                            THEN Len(Get(stream[i], "finishes", << >>))
                            ELSE 1)
                      ELSE 0)
    IN  Total[Len(stream)]

\* C22: after any sequence of process_card calls a count aggregator holds,
\* for exactly the key tuples carried by processed cards, the number of
\* those cards, or the sum of the lengths of their finishes lists when
\* count_finishes is set; get_sorted_data gives one row per key, in
\* non-increasing count.
C22_CountsAndOrder ==
    \A name \in DOMAIN CountConfigs :
        LET self == aggregators[1][name]
            config == CountConfigs[name]
            keys == CountKeys(config.key_fields)
            rows == Count_get_sorted_data(self)
        IN  /\ DictKeys(self.data) = { keys[i] : i \in DOMAIN keys }
            /\ \A key \in DictKeys(self.data) :
                  DictGet(self.data, key) = CountExpected(config, key)
            /\ Len(rows) = Len(self.data)
            /\ \A i \in 1..Len(rows) :
                  rows[i].count = DictGet(self.data, rows[i].key)
            /\ \A i, j \in 1..Len(rows) :
                  i < j => rows[i].count >= rows[j].count

\* One printing of a card, then two printings of another with four finishes
\* between them, were counted; the row of the card read later comes first.
C22_Witness ==
    /\ Len(stream) = 3
    /\ Range(stream) = { NicolBolas, DemonicTutor, DemonicTutorPromo }
    /\ stream[1] = NicolBolas
    /\ DictGet(aggregators[1]["count_finishes_by_name"].data,
               << "Demonic Tutor" >>) = 4
    /\ DictGet(aggregators[1]["count_cards_by_name"].data,
               << "Demonic Tutor" >>) = 2
    /\ Count_get_sorted_data(aggregators[1]["count_cards_by_name"])[1].key
         = << "Demonic Tutor" >>

----------------------------------------------------------------------------
(* Properties of the max-collector-number aggregator *)

\* Whether process_card of the aggregator takes the card's number: the
\* collector number is there and all digits, the set is there.
HasCountedNumber(card) ==
    /\ "collector_number" \in DOMAIN card
    /\ card["collector_number"] # << >>
    /\ Range(card["collector_number"]) \subseteq Digits
    /\ "set" \in DOMAIN card

\* The all-digit collector numbers of the cards of a set in the stream.
CountedNumbers(set_code) ==
    { IntOfDigits(stream[i]["collector_number"]) :
        i \in { j \in 1..Len(stream) :
                  HasCountedNumber(stream[j]) /\ stream[j]["set"] = set_code } }

\* C23: after any sequence of process_card calls the max-by-key aggregator
\* holds, for exactly the sets of the processed cards with an all-digit
\* collector number, the maximum of those numbers; it is left unchanged by
\* any card whose collector number is missing or has a non-digit character;
\* get_sorted_data gives one row per set in non-increasing max value.
C23_MaxCollectorNumber ==
    LET self == aggregators[1]["max_collector_number_by_set"]
        rows == MaxCollectorNumber_get_sorted_data(self)
    IN  /\ DictKeys(self)
             = { stream[i]["set"] :
                   i \in { j \in 1..Len(stream) : HasCountedNumber(stream[j]) } }
        /\ \A set_code \in DictKeys(self) :
              /\ DictGet(self, set_code) \in CountedNumbers(set_code)
              /\ \A n \in CountedNumbers(set_code) : n <= DictGet(self, set_code)
        /\ \A card \in StreamCards :
              ( \/ "collector_number" \notin DOMAIN card
                \/ Range(card["collector_number"]) \ Digits # {} ) =>
                  MaxCollectorNumber_process_card(self, card) = Returned(self)
        /\ Len(rows) = Len(self)
        /\ \A i \in 1..Len(rows) :
              rows[i].maxNumber = DictGet(self, rows[i].set)
        /\ \A i, j \in 1..Len(rows) :
              i < j => rows[i].maxNumber >= rows[j].maxNumber

\* Number 210 of a set was read before number 1 and a card numbered "2a" of
\* the same set: the set holds 210.
C23_Witness ==
    /\ stream = << ElvishGiant, DemonicTutor, DemonicTutorPromo >>
    /\ aggregators[1]["max_collector_number_by_set"]
         = << [ key |-> SetLEA, value |-> 210 ] >>

----------------------------------------------------------------------------
(* Properties of the illustrations aggregator *)

\* The illustration ids (None included) of the cards of the stream with a
\* set and a name.
IllustrationsSeen(set_code, name) ==
    { GetOrNone(stream[i], "illustration_id") :
        i \in { j \in 1..Len(stream) :
                  /\ GetOrNone(stream[j], "set") = << set_code >>
                  /\ GetOrNone(stream[j], "name") = << name >> } }

\* C24, first part: get_sorted_data of the illustrations aggregator gives one
\* row per (set, name) key of the processed cards, whose count is the
\* number of distinct illustration ids accumulated for the key.
C24_OneRowPerKey ==
    LET self == aggregators[1]["count_card_illustrations_by_set"]
        rows == Illustrations_get_sorted_data(self)
    IN  /\ Len(rows) = Len(self.data)
        /\ \A i \in 1..Len(rows) :
              /\ self.data[i].key = << rows[i].set, rows[i].name >>
              /\ rows[i].count
                   = Cardinality(IllustrationsSeen(rows[i].set, rows[i].name))
        /\ \A i, j \in 1..Len(rows) :
              i # j => << rows[i].set, rows[i].name >>
                         # << rows[j].set, rows[j].name >>

\* C24: get_sorted_data of the illustrations aggregator gives one row per
\* (set, name) key, with the size of the accumulated set as count, the rows
\* in descending order of that size.  (Violated: the rows are in the order
\* the keys were first seen.)
C24_RowsDescending ==
    LET rows == Illustrations_get_sorted_data(
                    aggregators[1]["count_card_illustrations_by_set"])
    IN  /\ C24_OneRowPerKey
        /\ \A i, j \in 1..Len(rows) :
              i < j => rows[i].count >= rows[j].count

----------------------------------------------------------------------------
(* Properties of the supercycle aggregator *)

\* The release dates of the processed cards of a name: the cards of the
\* stream with that name and a release date that is a date.
DatesOf(name) ==
    { fromisoformat(stream[i]["released_at"]) :
        i \in { j \in 1..Len(stream) :
                  /\ Get(stream[j], "name", "") = name
                  /\ "released_at" \in DOMAIN stream[j]
                  /\ IsIsoDate(stream[j]["released_at"]) } }

EarliestIn(dates) ==
    CHOOSE d \in dates : \A e \in dates : ~ DateLess(e, d)

LatestIn(dates) ==
    CHOOSE d \in dates : \A e \in dates : ~ DateLess(d, e)

\* The member names of a cycle that were observed, and the earliest date
\* of each.
Matched(cycle) == { name \in Range(cycle.cards) : DatesOf(name) # {} }

MatchedDates(cycle) == { EarliestIn(DatesOf(name)) : name \in Matched(cycle) }

ExpectedDays(cycle, day) ==
    toordinal(IF cycle.finished THEN LatestIn(MatchedDates(cycle)) ELSE day)
      - toordinal(EarliestIn(MatchedDates(cycle)))

\* C25: after any card sequence the supercycle aggregator keeps per card
\* name the earliest release date of the processed cards of that name;
\* get_sorted_data has a row for exactly the cycles with a matched member,
\* whose days are latest minus earliest matched date when the cycle is
\* finished and today minus earliest matched date when it is not; the rows
\* are in non-increasing days.
C25_TimeSpan ==
    LET self == aggregators[1]["supercycle_completion_time"]
        rows == Supercycle_get_sorted_data(self, today)
        names == { Get(stream[i], "name", "") : i \in 1..Len(stream) } \ {""}
    IN  /\ DictKeys(self.card_dates) = { name \in names : DatesOf(name) # {} }
        /\ \A name \in DictKeys(self.card_dates) :
              DictGet(self.card_dates, name) = EarliestIn(DatesOf(name))
        /\ \A c \in 1..Len(SupercyclesFile) :
              LET cycle == SupercyclesFile[c]
                  hits == { i \in 1..Len(rows) :
                              rows[i].supercycle = cycle.name }
              IN  IF Matched(cycle) = {} THEN hits = {}
                  ELSE /\ Cardinality(hits) = 1
                       /\ \A i \in hits :
                             rows[i].days = ExpectedDays(cycle, today)
        /\ \A i, j \in 1..Len(rows) : i < j => rows[i].days >= rows[j].days

\* Both members of a finished cycle, released 6630 days apart, were read,
\* the later of them also a member of an unfinished cycle: the finished
\* cycle is the first row, the unfinished one, counted up to today, the
\* second.
C25_Witness ==
    /\ Len(stream) = 3
    /\ aggregators[1]["supercycle_completion_time"].card_dates
         = << [ key |-> "Nicol Bolas", value |-> << 2011, 9, 30 >> ],
              [ key |-> "Elvish Giant", value |-> << 1993, 8, 5 >> ] >>
    /\ Supercycle_get_sorted_data(
          aggregators[1]["supercycle_completion_time"], today)[1].days = 6630
    /\ Supercycle_get_sorted_data(
          aggregators[1]["supercycle_completion_time"], today)[2].status
         = "Unfinished"

\* The cycle with only its observed member names.
MatchedOnly(cycle) ==
    [ cycle EXCEPT !.cards = SelectSeq(cycle.cards,
                                       LAMBDA name : name \in Matched(cycle)) ]

\* C26: a cycle of which only some member names were observed still has
\* exactly one row, and its start date, end date and day count are those
\* of the cycle made of the matched members alone.
C26_PartialCycle ==
    LET self == aggregators[1]["supercycle_completion_time"]
        rows == Supercycle_get_sorted_data(self, today)
    IN  \A c \in 1..Len(SupercyclesFile) :
            LET cycle == SupercyclesFile[c]
                alone == Supercycle_row(self, MatchedOnly(cycle), today)
                hits == { i \in 1..Len(rows) :
                            rows[i].supercycle = cycle.name }
            IN  Matched(cycle) \notin { {}, Range(cycle.cards) } =>
                    /\ Cardinality(hits) = 1
                    /\ \A i \in hits :
                          /\ rows[i].startDate = alone.startDate
                          /\ rows[i].endDate = alone.endDate
                          /\ rows[i].days = alone.days
                          /\ rows[i].startDate
                               = EarliestIn(MatchedDates(cycle))
                          /\ cycle.finished =>
                                rows[i].endDate
                                  = << LatestIn(MatchedDates(cycle)) >>

\* Of a finished cycle of two tutors only one was observed, in two
\* printings: its row starts and ends on the date of the first printing.
C26_Witness ==
    /\ stream = << DemonicTutorPromo, DemonicTutor >>
    /\ LET rows == Supercycle_get_sorted_data(
                       aggregators[1]["supercycle_completion_time"], today)
       IN  /\ Len(rows) = 1
           /\ rows[1].supercycle = "Tutors"
           /\ rows[1].cards = << "Demonic Tutor", "Vampiric Tutor" >>
           /\ rows[1].startDate = << 1993, 8, 5 >>
           /\ rows[1].endDate = << << 1993, 8, 5 >> >>
           /\ rows[1].days = 0

\* C27: whenever the output phase finds a cycle that names a card never
\* observed in the stream, a warning about that cycle has been emitted.
\* (Violated: get_sorted_data emits nothing.)
C27_WarningForUnseenMember ==
    \A finalized \in Range(output[1]) :
        \A c \in 1..Len(SupercyclesFile) :
            Matched(SupercyclesFile[c]) # Range(SupercyclesFile[c].cards) =>
                SupercyclesFile[c].name \in finalized.warnings

----------------------------------------------------------------------------
(* Properties of one pass of apply_global_effects *)

\* C28: for every TypeSet with at least one permanent type,
\* apply_global_effects (the table in its defined order) returns a superset
\* of its argument that holds Legendary, Snow, Enchantment, Artifact,
\* Creature and every creature type that was loaded.
C28_FeedForward ==
    ( /\ effect_order = global_effects
      /\ effect_input \cap permanent_types # {} ) =>
        /\ effect_input \subseteq effect_result
        /\ {"Legendary", "Snow", "Enchantment", "Artifact", "Creature"}
               \subseteq effect_result
        /\ all_creature_types \subseteq effect_result

\* A Battle alone comes back as an artifact creature of every loaded
\* creature type: Creature is added because Artifact was, the creature
\* types because Creature was.
C28_Witness ==
    /\ effect_order = global_effects
    /\ effect_input = {"Battle"}
    /\ all_creature_types = {"Elf", "Saproling", "Wizard"}
    /\ {"Artifact", "Creature", "Elf", "Saproling", "Wizard"}
           \subseteq effect_result

----------------------------------------------------------------------------
(* Properties of the representatives of the antichain map *)

\* C29: after any sequence of process_card calls, the card stored under a
\* key K of maximal_types is a processed card one of whose faces computed
\* to exactly K, and no processed traditional card with a face computing to
\* exactly K has a smaller sort key.
C29_EarliestRepresentative ==
    \A k \in Keys :
        /\ [ key |-> k, card |-> maximal_types[k] ] \in offered
        /\ \A o \in offered :
              o.key = k =>
                 ~ SortKeyLess(get_sort_key(o.card),
                               get_sort_key(maximal_types[k]))

\* The card processed last is the earlier of two printings offered with
\* one key: it has replaced the later one as the representative of that
\* key, next to another stored key.
C29_Witness ==
    /\ \E o1, o2 \in offered :
          /\ o1.key = o2.key /\ o1.key \in Keys
          /\ last_card = << o1.card >>
          /\ maximal_types[o1.key] = o1.card
          /\ SortKeyLess(get_sort_key(o1.card), get_sort_key(o2.card))
    /\ Cardinality(Keys) >= 2

----------------------------------------------------------------------------
(* Properties of grouping by generalized mana cost *)

\* The one-to-one maps from the colours of a cost to the colour letters.
ColorRenamingsOf(cost) ==
    { p \in [ DistinctColors(cost) -> {"W", "U", "B", "R", "G"} ] :
        \A c, d \in DOMAIN p : p[c] = p[d] => c = d }

\* The mana costs as long as the given one with the same generalized cost.
SameGeneralized(cost) ==
    { y \in [ 1..Len(cost) -> CostSymbols ] :
        generalize_mana_cost(y) = generalize_mana_cost(cost) }

\* C30: two mana costs with at most 4 distinct colours each have the same
\* generalized cost only if one is the other with its colour letters
\* renamed one-to-one. (Violated: the fourth colour becomes "P", the
\* Phyrexian symbol, which is left as it is.)
C30_NoMergedShapes ==
    ( /\ generalized # << >>
      /\ Cardinality(DistinctColors(mana_cost)) <= 4 ) =>
        \A y \in SameGeneralized(mana_cost) :
            Cardinality(DistinctColors(y)) <= 4 =>
                \E p \in ColorRenamingsOf(mana_cost) :
                    y = Renamed(p, mana_cost)
====
